---- MODULE Spec2Model ----
(***************************************************************************)
(* Model of the RAG component index: FileVectorStore (three JSON files),   *)
(* SmartCache and RAGService (syncComponents / searchComponents).          *)
(*                                                                         *)
(* SpecStore : callers of FileVectorStore whose calls interleave at every  *)
(*             await (one action per file read or write), plus a process   *)
(*             stop that abandons the calls in flight.                     *)
(* Spec      : the RAGService facade, one action per step of Sync/Search.  *)
(*                                                                         *)
(* A file read or write is one atomic step; a file that does not exist     *)
(* reads as the empty array (loadDocuments/loadIndex return [] on error),  *)
(* which is also what initialize() writes, so absent and empty coincide.   *)
(***************************************************************************)
EXTENDS Integers, Sequences, FiniteSets, TLC

\* ------------------------------------------------------------------ bounds
MaxBatch == 2
MaxStoreLen == 3
MaxOps == 2

Procs == {1, 2}

\* ------------------------------------------------------------- sequences
RECURSIVE SeqFilterRange(_, _, _, _)
\* the subsequence of s at the positions lo..hi that are in keep (by halves,
\* so that arrays of a thousand entries stay within the evaluator's stack)
SeqFilterRange(s, keep, lo, hi) ==
  IF lo > hi THEN <<>>
  ELSE IF lo = hi THEN (IF lo \in keep THEN <<s[lo]>> ELSE <<>>)
  ELSE LET mid == (lo + hi) \div 2
       IN SeqFilterRange(s, keep, lo, mid) \o SeqFilterRange(s, keep, mid + 1, hi)

\* the subsequence of s at the positions i >= from that are in keep
SeqFilterIdx(s, keep, from) == SeqFilterRange(s, keep, from, Len(s))

Take(s, n) == IF Len(s) <= n THEN s ELSE SubSeq(s, 1, n)

IdsOf(s) == {s[i].id : i \in DOMAIN s}

HasDuplicateIds(s) == \E i, j \in DOMAIN s : i # j /\ s[i].id = s[j].id

\* ------------------------------------------------------- vector documents
Meta(comp, pkg, type, tags) ==
  [componentName |-> comp, packageName |-> pkg, type |-> type, tags |-> tags]

Doc(id, content, emb, meta) ==
  [id |-> id, content |-> content, embedding |-> emb, metadata |-> meta]

PkgBasic == "@private/basic-components"
PkgOther == "@private/other-components"

\* md5(`${componentName}-${type}-${content}`).slice(0, 8): a digest of the
\* three strings, taken as free of collisions on the texts of the model
Md5Hex8(componentName, type, content) == <<"md5", componentName, type, content>>

\* `${componentName}-${type}-${hash.slice(0, 8)}`
generateDocumentId(componentName, type, content) ==
  <<componentName, type, Md5Hex8(componentName, type, content)>>

\* text-embedding vectors of the texts and queries of the model (two
\* dimensions stand for the 1536 of the provider)
EmbeddingOf(text) ==
  CASE text = "Button triggers an action" -> <<2, 0>>
    [] text = "## API type size onClick" -> <<2, 1>>
    [] text = "<Button>ok</Button>" -> <<1, 1>>
    [] text = "Table displays rows" -> <<0, 2>>
    [] text = "Table component" -> <<1, 2>>
    [] text = "button" -> <<1, 0>>
    [] text = "BUTTON " -> <<1, 0>>
    [] text = "a clickable button" -> <<5, 1>>
    [] text = "table" -> <<1, 1>>
    [] OTHER -> <<1, 1>>

\* documents handed to the store by its callers in SpecStore
PoolDocs == <<
  Doc(generateDocumentId("Button", "description", "Button triggers an action"),
      "Button triggers an action", EmbeddingOf("Button triggers an action"),
      Meta("Button", PkgBasic, "description", {"form", "ui"})),
  Doc(generateDocumentId("Button", "api", "## API type size onClick"),
      "## API type size onClick", EmbeddingOf("## API type size onClick"),
      Meta("Button", PkgBasic, "api", {"form", "ui"})),
  Doc(generateDocumentId("Table", "description", "Table displays rows"),
      "Table displays rows", EmbeddingOf("Table displays rows"),
      Meta("Table", PkgOther, "description", {"ui"})) >>

\* the documents the callers of the store add
Pool == {PoolDocs[1], PoolDocs[2]}

\* the batches passed to addDocuments: up to MaxBatch documents of the pool,
\* repetitions included, listed in the order of the pool
Batches ==
  UNION {{[i \in 1..n |-> PoolDocs[f[i]]] :
            f \in {g \in [1..n -> 1..2] : \A i \in 1..(n - 1) : g[i] <= g[i + 1]}} :
         n \in 0..MaxBatch}

QueryVecs == {<<1, 1>>, <<1, 2>>}

\* thresholds are percentages: 50 stands for 0.5
Thresholds == {50}

\* --------------------------------------------------------- cosineSimilarity
Dot(a, b) == IF Len(a) = 0 THEN 0
             ELSE LET RECURSIVE S(_)
                      S(i) == IF i = 0 THEN 0 ELSE a[i] * b[i] + S(i - 1)
                  IN S(Len(a))

\* cosine similarity squared as a fraction <<num, den>>; every embedding of
\* the model has non-negative coordinates, so the square keeps the order.
\* magnitude 0 gives similarity 0 (file-store.ts:276).
cosineSimilarity(vecA, vecB) ==
  LET mag2 == Dot(vecA, vecA) * Dot(vecB, vecB)
  IN IF mag2 = 0 THEN <<0, 1>> ELSE <<Dot(vecA, vecB) * Dot(vecA, vecB), mag2>>

FracGT(f, g) == f[1] * g[2] > g[1] * f[2]

\* similarity >= pct / 100
SimAtLeast(f, pct) == f[1] * 10000 >= pct * pct * f[2]

\* ---------------------------------------------------------------- the sort
\* Array.prototype.sort((a, b) => b.similarity - a.similarity): stable,
\* descending by similarity.
\* mutant: the entries stay in the order of the index
SortBySimilarity_IndexOrder(s, qv) == s

\* an entry goes after the entries of greater similarity and after the
\* earlier entries of equal similarity
SortBySimilarity(s, qv) ==
  LET sim == {<<i, cosineSimilarity(qv, s[i].embedding)>> : i \in DOMAIN s}
      before(a, b) == FracGT(a[2], b[2]) \/ (~FracGT(b[2], a[2]) /\ a[1] < b[1])
      rank == {<<Cardinality({a \in sim : before(a, b)}) + 1, b[1]>> : b \in sim}
  IN [k \in DOMAIN s |-> s[(CHOOSE r \in rank : r[1] = k)[2]]]

\* --------------------------------------------------------- store operations
IndexEntry(doc) ==
  [id |-> doc.id, embedding |-> doc.embedding, metadata |-> doc.metadata]

MapIndexEntry(docs) == [i \in DOMAIN docs |-> IndexEntry(docs[i])]

\* mutant: the duplicate check is left out
NewDocs_NoCheck(existingDocs, docs) == docs

\* addDocuments: documents.filter(doc => !existingIds.has(doc.id))
NewDocs(existingDocs, docs) ==
  SeqFilterIdx(docs, {i \in DOMAIN docs : docs[i].id \notin IdsOf(existingDocs)}, 1)

\* deleteDocuments: filter(x => !idsSet.has(x.id)), on documents and on index
Remaining(s, ids) == SeqFilterIdx(s, {i \in DOMAIN s : s[i].id \notin ids}, 1)

\* docMap = new Map(documents.map(doc => [doc.id, doc])): the last record of
\* an id wins
DocMapGet(docs, id) ==
  LET hits == {i \in DOMAIN docs : docs[i].id = id}
  IN docs[CHOOSE i \in hits : \A j \in hits : j <= i]

\* filtered.map(item => docMap.get(item.id)).filter(doc => doc !== undefined)
MapDocs(items, docs) ==
  LET ids == IdsOf(docs)
      found == SeqFilterIdx(items, {i \in DOMAIN items : items[i].id \in ids}, 1)
  IN [i \in DOMAIN found |-> DocMapGet(docs, found[i].id)]

\* similaritySearch on an index and a documents array already loaded
similaritySearch(idx, docs, qv, topK, pct) ==
  IF Len(idx) = 0 THEN <<>>
  ELSE LET passing == SeqFilterIdx(idx,
                        {i \in DOMAIN idx :
                           SimAtLeast(cosineSimilarity(qv, idx[i].embedding), pct)}, 1)
           filtered == Take(SortBySimilarity(passing, qv), topK)
       IN MapDocs(filtered, docs)

NoFilters == [packageName |-> "", componentName |-> "", type |-> "", tags |-> {}]

\* the filter callback of searchWithFilters; "" and {} stand for an absent
\* field (both are falsy / empty in the source's tests)
PassesFilters(doc, filters) ==
  /\ ~(filters.packageName # "" /\ doc.metadata.packageName # filters.packageName)
  /\ ~(filters.componentName # "" /\ doc.metadata.componentName # filters.componentName)
  /\ ~(filters.type # "" /\ doc.metadata.type # filters.type)
  /\ ~(filters.tags # {} /\ filters.tags \cap doc.metadata.tags = {})

InnerTopK == 1000

searchWithFilters(idx, docs, qv, filters, topK, pct) ==
  LET allResults == similaritySearch(idx, docs, qv, InnerTopK, pct)
      filtered == SeqFilterIdx(allResults,
                    {i \in DOMAIN allResults : PassesFilters(allResults[i], filters)}, 1)
  IN Take(filtered, topK)

\* ------------------------------------------------------------------- state
VARIABLES
  documents,   \* documents.json
  index,       \* vectors.json
  meta,        \* metadata.json: totalDocuments
  pc,          \* per caller: the await it is suspended at
  op,          \* per caller: the call and its arguments
  loc,         \* per caller: locals (existingDocs, existingIndex, result)
  base,        \* history: the files when the caller's overlap group began
  conc,        \* history: number of calls that overlapped the caller's call
  peer,        \* history: the call that overlapped the caller's call
  clean,       \* history: no process stop and no overlapping calls so far
  crashed,     \* history: what the last process stop interrupted
  lastAdd,     \* history: the last completed addDocuments and the files after it
  opsLeft,     \* calls that may still be started
  tree,        \* the component source tree under sourcePath
  sync,        \* the syncComponents call: position, locals, response
  passed,      \* history: the documents handed to addDocuments by this Sync
  prevSync,    \* history: the previous completed Sync and the store after it
  budget,      \* calls and failures that may still happen
  config,      \* RAGConfig: cache.enabled, cache.maxSize
  cache,       \* SmartCache.cache, the exact map
  semanticCache, \* SmartCache.semanticCache
  now,         \* Date.now()
  srch,        \* the searchComponents call: position, locals, response
  got,         \* history: what the cache.get just made found and returned
  lru,         \* history: the keys of the exact map by last set or exact hit
  emb,         \* the createEmbedding call: attempt, provider calls, outcome
  http,        \* the POST handler of a route: position, body, response
  stat         \* the getStatus call: position, the stats it returned last

storeFiles == <<documents, index, meta>>
callerVars == <<pc, op, loc, base, conc, peer, clean, crashed, lastAdd, opsLeft>>
syncVars == <<tree, sync, passed, prevSync, budget>>
searchVars == <<config, cache, semanticCache, now, srch, got, lru>>
httpVars == <<emb, http, stat>>
svcVars == <<syncVars, searchVars, httpVars>>
vars == <<documents, index, meta, pc, op, loc, base, conc, peer, clean, crashed,
          lastAdd, opsLeft, tree, sync, passed, prevSync, budget, config, cache,
          semanticCache, now, srch, got, lru, emb, http, stat>>

\* maxSize of the SmartCache of the services
CacheMaxSize == 2

\* order lists the keys of the exact map from the one set or exact-hit
\* longest ago to the one set or exact-hit last; before is order as the last
\* call found it and evicted the key that call's eviction removed
LruIdle == [order |-> <<>>, before |-> <<>>, evicted |-> <<>>]

NoComponentDoc ==
  [packageName |-> "", componentName |-> "", description |-> "", api |-> "",
   examples |-> <<>>, tags |-> {}]

\* texts is what embedTexts was called with, input what createEmbedding
\* sends; component and vectors are the argument and the result of the
\* createComponentVectors call that made the embedTexts call; waits lists the
\* milliseconds handed to this.delay
EmbIdle == [pc |-> "idle", attempt |-> 0, calls |-> 0, errors |-> <<>>, waits |-> <<>>,
            outcome |-> "none", message |-> <<>>, texts |-> <<>>, input |-> <<>>,
            result |-> <<>>, component |-> NoComponentDoc, vectors |-> <<>>]
NoStats == [totalComponents |-> 0, totalDocuments |-> 0, packageStats |-> <<>>]
\* produced and afterSync are history: the vectors the last Sync made and
\* the status it returned ("none" when no Sync had returned or one was
\* running) when the documents were loaded
StatIdle == [pc |-> "idle", stats |-> NoStats, produced |-> <<>>, afterSync |-> "none"]

\* served is history: the service call whose outcome the response reports
HttpIdle == [pc |-> "idle", body |-> [query |-> "", topK |-> 0, threshold |-> -1],
             status |-> 0, message |-> <<>>, errors |-> <<>>, data |-> <<>>,
             served |-> "none"]

Files == [documents |-> documents, index |-> index, totalDocuments |-> meta]

NoOp == [kind |-> "none", batch |-> <<>>, ids |-> {}, qv |-> <<>>, k |-> 0, pct |-> 0]
NoLoc == [existingDocs |-> <<>>, existingIndex |-> <<>>, result |-> <<>>]
NoFiles == [documents |-> <<>>, index |-> <<>>, totalDocuments |-> 0]
NoCrash == [valid |-> FALSE, pre |-> NoFiles, post |-> NoFiles]
NoAdd == [batch |-> <<>>, after |-> NoFiles, valid |-> FALSE, changed |-> FALSE]

AddOps == {[kind |-> "add", batch |-> b, ids |-> {}, qv |-> <<>>, k |-> 0, pct |-> 0] :
             b \in Batches}
DeleteOps == {[kind |-> "delete", batch |-> <<>>, ids |-> {d.id}, qv |-> <<>>, k |-> 0,
               pct |-> 0] : d \in Pool}
ClearOps == {[kind |-> "clear", batch |-> <<>>, ids |-> {}, qv |-> <<>>, k |-> 0, pct |-> 0]}
SearchOps == {[kind |-> "search", batch |-> <<>>, ids |-> {}, qv |-> q, k |-> k, pct |-> t] :
                q \in QueryVecs, k \in 1..2, t \in Thresholds}
Ops == AddOps \cup DeleteOps \cup ClearOps \cup SearchOps

\* the files a call leaves behind when it runs alone on files f
OpResult(f, o) ==
  IF o.kind = "add" THEN
    LET new == NewDocs(f.documents, o.batch)
    IN IF new = <<>> THEN f
       ELSE [documents |-> f.documents \o new,
             index |-> f.index \o MapIndexEntry(new),
             totalDocuments |-> Len(f.documents \o new)]
  ELSE IF o.kind = "delete" THEN
    [documents |-> Remaining(f.documents, o.ids),
     index |-> Remaining(f.index, o.ids),
     totalDocuments |-> Len(Remaining(f.documents, o.ids))]
  ELSE IF o.kind = "clear" THEN NoFiles
  ELSE f

\* documents[], index[] and meta describe the same set of records
Agree(f) ==
  /\ Len(f.documents) = Len(f.index)
  /\ \A i \in DOMAIN f.documents : f.index[i] = IndexEntry(f.documents[i])
  /\ f.totalDocuments = Len(f.documents)

InFlight(p) == pc[p] \notin {"idle", "ret"}

\* the caller has not taken the result of its call yet
Pending(p) == pc[p] # "idle"

\* consistent stores the directory may hold when the process starts
InitialStores == {<<>>, <<PoolDocs[1], PoolDocs[2]>>}

InitStore ==
  /\ \E d \in InitialStores :
       /\ documents = d
       /\ index = MapIndexEntry(d)
       /\ meta = Len(d)
  /\ pc = [p \in Procs |-> "idle"]
  /\ op = [p \in Procs |-> NoOp]
  /\ loc = [p \in Procs |-> NoLoc]
  /\ base = [p \in Procs |-> NoFiles]
  /\ conc = [p \in Procs |-> 0]
  /\ peer = [p \in Procs |-> NoOp]
  /\ clean = TRUE
  /\ crashed = NoCrash
  /\ lastAdd = NoAdd
  /\ opsLeft = MaxOps
  /\ tree = [listable |-> TRUE, dirs |-> <<>>]
  /\ sync = [pc |-> "idle"]
  /\ passed = <<>>
  /\ prevSync = [valid |-> FALSE]
  /\ budget = [calls |-> 0]
  /\ config = [cacheEnabled |-> FALSE, maxSize |-> CacheMaxSize]
  /\ cache = <<>>
  /\ semanticCache = <<>> /\ lru = LruIdle
  /\ now = 0
  /\ srch = [pc |-> "idle"]
  /\ got = [valid |-> FALSE]
  /\ emb = EmbIdle
  /\ http = HttpIdle
  /\ stat = StatIdle

FirstPc(o) ==
  CASE o.kind = "add" -> "add_initialize"
    [] o.kind = "delete" -> "del_loadDocuments"
    [] o.kind = "clear" -> "clr_saveDocuments"
    [] o.kind = "search" -> "srch_loadIndex"

\* a caller starts a call of the store
Call(p, o) ==
  /\ pc[p] = "idle"
  /\ opsLeft > 0
  /\ o.kind = "add" =>
       /\ Len(documents) + Len(o.batch) <= MaxStoreLen
       /\ Len(index) + Len(o.batch) <= MaxStoreLen
  /\ opsLeft' = opsLeft - 1
  /\ pc' = [pc EXCEPT ![p] = FirstPc(o)]
  /\ op' = [op EXCEPT ![p] = o]
  /\ loc' = [loc EXCEPT ![p] = NoLoc]
  /\ LET others == {q \in Procs \ {p} : Pending(q)}
     IN IF others = {}
        THEN /\ base' = [base EXCEPT ![p] = Files]
             /\ conc' = [conc EXCEPT ![p] = 0]
             /\ peer' = [peer EXCEPT ![p] = NoOp]
             /\ clean' = clean
             /\ lastAdd' = IF lastAdd.valid /\ o.kind = "add" /\ o.batch = lastAdd.batch
                              /\ Files = lastAdd.after
                           THEN lastAdd ELSE NoAdd
        ELSE /\ base' = [base EXCEPT ![p] = base[CHOOSE q \in others : TRUE]]
             /\ conc' = [q \in Procs |-> IF q = p THEN Cardinality(others)
                                         ELSE IF q \in others THEN conc[q] + 1
                                         ELSE conc[q]]
             /\ peer' = [q \in Procs |-> IF q = p THEN op[CHOOSE r \in others : TRUE]
                                         ELSE IF q \in others THEN o
                                         ELSE peer[q]]
             /\ clean' = FALSE
             /\ lastAdd' = NoAdd
  /\ crashed' = NoCrash
  /\ UNCHANGED <<documents, index, meta>>
  /\ UNCHANGED svcVars

\* the caller p moves on to its next await; the service does not move
Goto(p, label) == pc' = [pc EXCEPT ![p] = label] /\ UNCHANGED svcVars

\* addDocuments: await this.initialize()
AddInitialize(p) ==
  /\ pc[p] = "add_initialize"
  /\ Goto(p, "add_loadDocuments")
  /\ UNCHANGED <<documents, index, meta, op, loc, base, conc, peer, clean, crashed,
                 lastAdd, opsLeft>>

\* addDocuments: existingDocs = await this.loadDocuments()
AddLoadDocuments(p) ==
  /\ pc[p] = "add_loadDocuments"
  /\ loc' = [loc EXCEPT ![p].existingDocs = documents]
  /\ Goto(p, "add_loadIndex")
  /\ UNCHANGED <<documents, index, meta, op, base, conc, peer, clean, crashed,
                 lastAdd, opsLeft>>

\* addDocuments: existingIndex = await this.loadIndex(); the duplicate check
\* and the early return follow without another await
AddLoadIndex(p) ==
  /\ pc[p] = "add_loadIndex"
  /\ loc' = [loc EXCEPT ![p].existingIndex = index]
  /\ IF NewDocs(loc[p].existingDocs, op[p].batch) = <<>>
     THEN Goto(p, "ret")
     ELSE Goto(p, "add_saveDocuments")
  /\ UNCHANGED <<documents, index, meta, op, base, conc, peer, clean, crashed,
                 lastAdd, opsLeft>>

\* addDocuments: await this.saveDocuments([...existingDocs, ...newDocs])
AddSaveDocuments(p) ==
  /\ pc[p] = "add_saveDocuments"
  /\ documents' = loc[p].existingDocs \o NewDocs(loc[p].existingDocs, op[p].batch)
  /\ Goto(p, "add_saveIndex")
  /\ UNCHANGED <<index, meta, op, loc, base, conc, peer, clean, crashed, lastAdd, opsLeft>>

\* an addDocuments that saves the entries of the new documents only
AddSaveIndex_NewEntriesOnly(p) ==
  /\ pc[p] = "add_saveIndex"
  /\ index' = MapIndexEntry(NewDocs(loc[p].existingDocs, op[p].batch))
  /\ Goto(p, "add_updateMetadata")
  /\ UNCHANGED <<documents, meta, op, loc, base, conc, peer, clean, crashed, lastAdd,
                 opsLeft>>

\* addDocuments: await this.saveIndex([...existingIndex, ...newIndexEntries])
AddSaveIndex(p) ==
  /\ pc[p] = "add_saveIndex"
  /\ index' = loc[p].existingIndex
                \o MapIndexEntry(NewDocs(loc[p].existingDocs, op[p].batch))
  /\ Goto(p, "add_updateMetadata")
  /\ UNCHANGED <<documents, meta, op, loc, base, conc, peer, clean, crashed, lastAdd,
                 opsLeft>>

\* addDocuments: await this.updateMetadata(allDocs.length)
AddUpdateMetadata(p) ==
  /\ pc[p] = "add_updateMetadata"
  /\ meta' = Len(loc[p].existingDocs \o NewDocs(loc[p].existingDocs, op[p].batch))
  /\ Goto(p, "ret")
  /\ UNCHANGED <<documents, index, op, loc, base, conc, peer, clean, crashed, lastAdd,
                 opsLeft>>

\* similaritySearch: index = await this.loadIndex()
SearchLoadIndex(p) ==
  /\ pc[p] = "srch_loadIndex"
  /\ loc' = [loc EXCEPT ![p].existingIndex = index]
  /\ Goto(p, "srch_loadDocuments")
  /\ UNCHANGED <<documents, index, meta, op, base, conc, peer, clean, crashed,
                 lastAdd, opsLeft>>

\* similaritySearch: documents = await this.loadDocuments(), then the
\* scoring, sort and lookup
SearchLoadDocuments(p) ==
  /\ pc[p] = "srch_loadDocuments"
  /\ loc' = [loc EXCEPT ![p].existingDocs = documents,
                        ![p].result = similaritySearch(loc[p].existingIndex, documents,
                                                       op[p].qv, op[p].k, op[p].pct)]
  /\ Goto(p, "ret")
  /\ UNCHANGED <<documents, index, meta, op, base, conc, peer, clean, crashed,
                 lastAdd, opsLeft>>

\* deleteDocuments: documents = await this.loadDocuments()
DeleteLoadDocuments(p) ==
  /\ pc[p] = "del_loadDocuments"
  /\ loc' = [loc EXCEPT ![p].existingDocs = documents]
  /\ Goto(p, "del_loadIndex")
  /\ UNCHANGED <<documents, index, meta, op, base, conc, peer, clean, crashed,
                 lastAdd, opsLeft>>

\* deleteDocuments: index = await this.loadIndex()
DeleteLoadIndex(p) ==
  /\ pc[p] = "del_loadIndex"
  /\ loc' = [loc EXCEPT ![p].existingIndex = index]
  /\ Goto(p, "del_saveDocuments")
  /\ UNCHANGED <<documents, index, meta, op, base, conc, peer, clean, crashed,
                 lastAdd, opsLeft>>

\* deleteDocuments: await this.saveDocuments(remainingDocs)
DeleteSaveDocuments(p) ==
  /\ pc[p] = "del_saveDocuments"
  /\ documents' = Remaining(loc[p].existingDocs, op[p].ids)
  /\ Goto(p, "del_saveIndex")
  /\ UNCHANGED <<index, meta, op, loc, base, conc, peer, clean, crashed, lastAdd, opsLeft>>

\* deleteDocuments: await this.saveIndex(remainingIndex)
DeleteSaveIndex(p) ==
  /\ pc[p] = "del_saveIndex"
  /\ index' = Remaining(loc[p].existingIndex, op[p].ids)
  /\ Goto(p, "del_updateMetadata")
  /\ UNCHANGED <<documents, meta, op, loc, base, conc, peer, clean, crashed, lastAdd,
                 opsLeft>>

\* deleteDocuments: await this.updateMetadata(remainingDocs.length)
DeleteUpdateMetadata(p) ==
  /\ pc[p] = "del_updateMetadata"
  /\ meta' = Len(Remaining(loc[p].existingDocs, op[p].ids))
  /\ Goto(p, "ret")
  /\ UNCHANGED <<documents, index, op, loc, base, conc, peer, clean, crashed, lastAdd,
                 opsLeft>>

\* clear: await this.saveDocuments([])
ClearSaveDocuments(p) ==
  /\ pc[p] = "clr_saveDocuments"
  /\ documents' = <<>>
  /\ Goto(p, "clr_saveIndex")
  /\ UNCHANGED <<index, meta, op, loc, base, conc, peer, clean, crashed, lastAdd, opsLeft>>

\* clear: await this.saveIndex([])
ClearSaveIndex(p) ==
  /\ pc[p] = "clr_saveIndex"
  /\ index' = <<>>
  /\ Goto(p, "clr_updateMetadata")
  /\ UNCHANGED <<documents, meta, op, loc, base, conc, peer, clean, crashed, lastAdd,
                 opsLeft>>

\* clear: await this.updateMetadata(0)
ClearUpdateMetadata(p) ==
  /\ pc[p] = "clr_updateMetadata"
  /\ meta' = 0
  /\ Goto(p, "ret")
  /\ UNCHANGED <<documents, index, op, loc, base, conc, peer, clean, crashed, lastAdd,
                 opsLeft>>

\* the caller takes the result of its call; a completed addDocuments that
\* ran alone is remembered together with the files it left
Return(p) ==
  /\ pc[p] = "ret"
  /\ lastAdd' = IF op[p].kind = "add" /\ conc[p] = 0
                   /\ \A q \in Procs \ {p} : ~InFlight(q)
                THEN [batch |-> op[p].batch, after |-> Files, valid |-> TRUE,
                      changed |-> base[p] # Files]
                ELSE NoAdd
  /\ pc' = [pc EXCEPT ![p] = "idle"]
  /\ op' = [op EXCEPT ![p] = NoOp]
  /\ loc' = [loc EXCEPT ![p] = NoLoc]
  /\ base' = [base EXCEPT ![p] = NoFiles]
  /\ conc' = [conc EXCEPT ![p] = 0]
  /\ peer' = [peer EXCEPT ![p] = NoOp]
  /\ UNCHANGED <<documents, index, meta, clean, crashed, opsLeft>>
  /\ UNCHANGED svcVars

\* the process stops: every call in flight is abandoned where it is, the
\* files stay as they are
Crash ==
  /\ \E p \in Procs : InFlight(p)
  /\ LET fl == {p \in Procs : InFlight(p)}
         p == CHOOSE q \in fl : TRUE
     IN crashed' = IF Cardinality(fl) = 1 /\ conc[p] = 0
                      /\ op[p].kind \in {"add", "clear"} /\ Agree(base[p])
                   THEN [valid |-> TRUE, pre |-> base[p], post |-> OpResult(base[p], op[p])]
                   ELSE NoCrash
  /\ pc' = [p \in Procs |-> "idle"]
  /\ op' = [p \in Procs |-> NoOp]
  /\ loc' = [p \in Procs |-> NoLoc]
  /\ base' = [p \in Procs |-> NoFiles]
  /\ conc' = [p \in Procs |-> 0]
  /\ peer' = [p \in Procs |-> NoOp]
  /\ clean' = FALSE
  /\ lastAdd' = NoAdd
  /\ UNCHANGED <<documents, index, meta, opsLeft>>
  /\ UNCHANGED svcVars

NextStore ==
  \/ \E p \in Procs, o \in Ops : Call(p, o)
  \/ \E p \in Procs : AddInitialize(p)
  \/ \E p \in Procs : AddLoadDocuments(p)
  \/ \E p \in Procs : AddLoadIndex(p)
  \/ \E p \in Procs : AddSaveDocuments(p)
  \/ \E p \in Procs : AddSaveIndex(p)
  \/ \E p \in Procs : AddUpdateMetadata(p)
  \/ \E p \in Procs : SearchLoadIndex(p)
  \/ \E p \in Procs : SearchLoadDocuments(p)
  \/ \E p \in Procs : DeleteLoadDocuments(p)
  \/ \E p \in Procs : DeleteLoadIndex(p)
  \/ \E p \in Procs : DeleteSaveDocuments(p)
  \/ \E p \in Procs : DeleteSaveIndex(p)
  \/ \E p \in Procs : DeleteUpdateMetadata(p)
  \/ \E p \in Procs : ClearSaveDocuments(p)
  \/ \E p \in Procs : ClearSaveIndex(p)
  \/ \E p \in Procs : ClearUpdateMetadata(p)
  \/ \E p \in Procs : Return(p)
  \/ Crash

SpecStore == InitStore /\ [][NextStore]_vars

\* ======================================================== ComponentParser
\* A component directory under <sourcePath>/components: its name, whether
\* fs.access succeeds, the description slab and the "## API" section of
\* index.en-US.md ("" when the file or the section is missing) and the demo
\* sources after the import lines are dropped and the rest trimmed.
Dir(name, accessible, description, api, demos) ==
  [name |-> name, accessible |-> accessible, description |-> description,
   api |-> api, demos |-> demos]

\* capitalizeComponentName on the directory names of the model
capitalizeComponentName(name) ==
  CASE name = "button" -> "Button"
    [] name = "table" -> "Table"
    [] name = "modal" -> "Modal"
    [] name = "alert" -> "Alert"
    [] name = "card" -> "Card"
    [] name = "menu" -> "Menu"
    [] name = "tabs" -> "Tabs"
    [] name = "select" -> "Select"
    [] name = "radio" -> "Radio"
    [] name = "switch" -> "Switch"
    [] name = "slider" -> "Slider"
    [] name = "upload" -> "Upload"
    [] OTHER -> name

\* `${capitalizeComponentName(name)} component`
FallbackDescription(name) ==
  CASE name = "button" -> "Button component"
    [] name = "table" -> "Table component"
    [] name = "modal" -> "Modal component"
    [] name = "alert" -> "Alert component"
    [] name = "card" -> "Card component"
    [] name = "menu" -> "Menu component"
    [] name = "tabs" -> "Tabs component"
    [] name = "select" -> "Select component"
    [] name = "radio" -> "Radio component"
    [] name = "switch" -> "Switch component"
    [] name = "slider" -> "Slider component"
    [] name = "upload" -> "Upload component"
    [] OTHER -> "component"

ApiNotAvailable == "API documentation not available"

\* extractTags: tagMapping[name] || ['ui'], then 'react' and 'component'
extractTags(name) ==
  (CASE name = "button" -> {"form", "action", "ui", "interactive"}
     [] name = "table" -> {"data-display", "list", "ui"}
     [] name = "modal" -> {"feedback", "overlay", "ui"}
     [] name = "alert" -> {"feedback", "message", "ui"}
     [] name = "card" -> {"data-display", "container", "ui"}
     [] name \in {"menu", "tabs"} -> {"navigation", "ui"}
     [] name \in {"select", "radio", "switch", "slider", "upload"} ->
          {"form", "data-entry", "ui"}
     [] OTHER -> {"ui"})
  \cup {"react", "component"}

IsBlank(text) == text \in {"", " "}

\* extractExamples: the first three demo files, empty ones dropped
extractExamples(demos) ==
  LET first3 == Take(demos, 3)
  IN SeqFilterIdx(first3, {i \in DOMAIN first3 : ~IsBlank(first3[i])}, 1)

ComponentDoc(pkg, comp, description, api, examples, tags) ==
  [packageName |-> pkg, componentName |-> comp, description |-> description,
   api |-> api, examples |-> examples, tags |-> tags]

createEmptyComponentDoc(name) ==
  ComponentDoc(PkgBasic, capitalizeComponentName(name), FallbackDescription(name),
               ApiNotAvailable, <<>>, {"ui", "react", "component"})

\* parseComponent inside the try/catch of parseAllComponents: a directory
\* that cannot be accessed gives status 'error', every extract* falls back
\* to its default instead of throwing
parseComponent(dir) ==
  IF ~dir.accessible
  THEN [info |-> createEmptyComponentDoc(dir.name), status |-> "error"]
  ELSE [info |-> ComponentDoc(PkgBasic, capitalizeComponentName(dir.name),
                   IF IsBlank(dir.description) THEN FallbackDescription(dir.name)
                   ELSE dir.description,
                   IF IsBlank(dir.api) THEN ApiNotAvailable ELSE dir.api,
                   extractExamples(dir.demos),
                   extractTags(dir.name)),
        status |-> "success"]

RECURSIVE parseAllComponents(_)
parseAllComponents(dirs) ==
  IF dirs = <<>> THEN <<>>
  ELSE <<parseComponent(dirs[1])>> \o parseAllComponents(Tail(dirs))

\* ============================================= createComponentVectors
ExampleType == <<"example-0", "example-1", "example-2", "example-3", "example-4">>

Facet(content, type) == [content |-> content, type |-> type]

RECURSIVE ExampleFacets(_)
\* component.examples.forEach: the examples whose trim() is not empty
ExampleFacets(examples) ==
  IF examples = <<>> THEN <<>>
  ELSE (IF IsBlank(examples[1]) THEN <<>> ELSE <<Facet(examples[1], "example")>>)
       \o ExampleFacets(Tail(examples))

\* texts / contentList / metadataList, in the order they are pushed
Facets(component) ==
  (IF component.description # "" THEN <<Facet(component.description, "description")>>
   ELSE <<>>)
  \o (IF component.api # "" /\ component.api # ApiNotAvailable
      THEN <<Facet(component.api, "api")>> ELSE <<>>)
  \o ExampleFacets(component.examples)

\* embedTexts: texts.filter(text => text.trim())
ValidTexts(facets) == SeqFilterIdx(facets, {i \in DOMAIN facets : ~IsBlank(facets[i].content)}, 1)

\* the task of a component reaches the embedding provider
CallsProvider(component) ==
  Facets(component) # <<>> /\ ValidTexts(Facets(component)) # <<>>

\* embeddings.map((embedding, index) => ({id, content, embedding, metadata})):
\* embedding number n (of the valid texts) is paired with facet number n (of
\* all facets); `example-${index}` counts from 0, ExampleType[n] is example-(n-1)
createComponentVectors(component) ==
  LET facets == Facets(component)
      valid == ValidTexts(facets)
  IN [n \in 1..Len(valid) |->
        Doc(generateDocumentId(component.componentName,
                               IF facets[n].type = "example"
                               THEN ExampleType[n] ELSE facets[n].type,
                               facets[n].content),
            facets[n].content,
            EmbeddingOf(valid[n].content),
            Meta(component.componentName, component.packageName,
                 facets[n].type, component.tags))]

\* ======================================================= syncComponents
BATCH_SIZE == 10

\* calls of the service (Sync or Search) and failures of the embedding
\* provider or of a store write in one behaviour
MaxCalls == 2
MaxFailures == 1

DirButton == Dir("button", TRUE, "Button triggers an action", "## API type size onClick",
                 <<"<Button>ok</Button>">>)
DirTable == Dir("table", TRUE, "", "", <<>>)
DirModalUnreadable == Dir("modal", FALSE, "", "", <<>>)

Tree(listable, dirs) == [listable |-> listable, dirs |-> dirs]

Trees == {Tree(FALSE, <<>>), Tree(TRUE, <<>>), Tree(TRUE, <<DirButton>>),
          Tree(TRUE, <<DirTable, DirModalUnreadable>>)}

\* eleven directories: a first batch of ten (four readable) and a second
\* batch of one
BigTree == Tree(TRUE, <<Dir("alert", TRUE, "", "", <<>>), DirModalUnreadable,
                        Dir("card", TRUE, "", "", <<>>), Dir("menu", FALSE, "", "", <<>>),
                        Dir("tabs", FALSE, "", "", <<>>), Dir("select", TRUE, "", "", <<>>),
                        Dir("radio", FALSE, "", "", <<>>), Dir("switch", FALSE, "", "", <<>>),
                        Dir("slider", FALSE, "", "", <<>>), DirButton,
                        DirTable>>)

\* request.packages: absent, or a list of package names
SyncRequest(given, packages, forceReindex) ==
  [packagesGiven |-> given, packages |-> packages, forceReindex |-> forceReindex]

SyncRequests ==
  {SyncRequest(FALSE, {}, f) : f \in BOOLEAN}
  \cup {SyncRequest(TRUE, ps, FALSE) : ps \in {{}, {PkgOther}}}
  \cup {SyncRequest(TRUE, {PkgBasic}, TRUE)}

NoRequest == SyncRequest(FALSE, {}, FALSE)
NoResponse == [status |-> "none", processedCount |-> 0, successCount |-> 0,
               failedCount |-> 0, errors |-> <<>>]

\* overtaken is history: a task of this Sync finished while a task mapped
\* before it in its batch was still in flight
SyncIdle ==
  [pc |-> "idle", req |-> NoRequest, toSync |-> <<>>, batchIndex |-> 0,
   tasks |-> <<>>, results |-> <<>>, vectorDocuments |-> <<>>, processedCount |-> 0,
   successCount |-> 0, errors |-> <<>>, aborted |-> FALSE, resp |-> NoResponse,
   overtaken |-> FALSE]

Overtakes(sy, i) == \E j \in 1..(i - 1) : sy.tasks[j].state = "inflight"

ErrorEntry(component, kind) == [component |-> component, kind |-> kind]

\* request.packages ? parsedComponents.filter(...) : parsedComponents
\* (an empty list is truthy: the filter is applied and keeps nothing)
componentsToSync(parsed, req) ==
  IF req.packagesGiven
  THEN SeqFilterIdx(parsed, {i \in DOMAIN parsed :
                               parsed[i].info.packageName \in req.packages}, 1)
  ELSE parsed

\* mutant: every component is handed to one round of tasks
BatchOf_Whole(toSync, b) == toSync

\* batches[b], b counted from 0
BatchOf(toSync, b) ==
  SubSeq(toSync, b * BATCH_SIZE + 1,
         IF (b + 1) * BATCH_SIZE < Len(toSync) THEN (b + 1) * BATCH_SIZE ELSE Len(toSync))

NumBatches(toSync) == (Len(toSync) + BATCH_SIZE - 1) \div BATCH_SIZE

TaskOk(comp, vectors) ==
  [state |-> "done", success |-> TRUE, vectors |-> vectors, component |-> comp,
   error |-> ErrorEntry("", "none")]
TaskFailed(comp, kind) ==
  [state |-> "done", success |-> FALSE, vectors |-> <<>>, component |-> comp,
   error |-> ErrorEntry(comp, kind)]
TaskInFlight(comp) ==
  [state |-> "inflight", success |-> FALSE, vectors |-> <<>>, component |-> comp,
   error |-> ErrorEntry("", "none")]

\* batch.map(async parsedComp => ...) up to the first await of each task
StartTask(parsedComp) ==
  IF parsedComp.status # "success"
  THEN TaskFailed(parsedComp.info.componentName, "parse")
  ELSE IF Facets(parsedComp.info) = <<>>
  THEN TaskOk(parsedComp.info.componentName, <<>>)
  ELSE IF ValidTexts(Facets(parsedComp.info)) = <<>>
  THEN TaskFailed(parsedComp.info.componentName, "vector")
  ELSE TaskInFlight(parsedComp.info.componentName)

RECURSIVE StartTasks(_)
StartTasks(batch) ==
  IF batch = <<>> THEN <<>> ELSE <<StartTask(batch[1])>> \o StartTasks(Tail(batch))

RECURSIVE CollectVectors_StopAtFailure(_)
\* mutant: the loop over the results ends at the first failed component
CollectVectors_StopAtFailure(results) ==
  IF results = <<>> \/ ~results[1].success THEN <<>>
  ELSE results[1].vectors \o CollectVectors_StopAtFailure(Tail(results))

RECURSIVE CollectVectors(_)
\* for (const result of batchResults) if (result.success && result.vectors)
\*   vectorDocuments.push(...result.vectors)
CollectVectors(results) ==
  IF results = <<>> THEN <<>>
  ELSE (IF results[1].success THEN results[1].vectors ELSE <<>>)
       \o CollectVectors(Tail(results))

RECURSIVE CollectErrors(_)
\* else if (result.error) errors.push(result.error)
CollectErrors(results) ==
  IF results = <<>> THEN <<>>
  ELSE (IF results[1].success THEN <<>> ELSE <<results[1].error>>)
       \o CollectErrors(Tail(results))

CountSuccess(results) == Cardinality({i \in DOMAIN results : results[i].success})

\* mutant: the try block reports 'success' whatever the tasks did
SyncStatus_IgnoresErrors(errors, successCount) == "success"

\* status: errors.length === 0 ? 'success' : (successCount > 0 ? 'partial' : 'failed')
SyncStatus(errors, successCount) ==
  IF Len(errors) = 0 THEN "success" ELSE IF successCount > 0 THEN "partial" ELSE "failed"

\* the response of the try block
SyncResponse(sy) ==
  [status |-> SyncStatus(sy.errors, sy.successCount),
   processedCount |-> sy.processedCount,
   successCount |-> sy.successCount,
   failedCount |-> sy.processedCount - sy.successCount,
   errors |-> sy.errors]

\* the response of the catch block
SyncCatchResponse(sy) ==
  [status |-> "failed",
   processedCount |-> sy.processedCount,
   successCount |-> sy.successCount,
   failedCount |-> sy.processedCount - sy.successCount,
   errors |-> sy.errors \o <<ErrorEntry("", "sync")>>]

Caught(sy) == [sy EXCEPT !.pc = "ret", !.aborted = TRUE, !.resp = SyncCatchResponse(sy)]

\* the loop over the batches from batch b on, up to its next await: the
\* tasks of batch b are started, or, after the last batch, the response is
\* built (the cache is cleared by the action that gets here)
EnterBatch(sy, b) ==
  IF b < NumBatches(sy.toSync)
  THEN [sy EXCEPT !.pc = "tasks", !.batchIndex = b,
                  !.tasks = StartTasks(BatchOf(sy.toSync, b))]
  ELSE [sy EXCEPT !.pc = "ret", !.tasks = <<>>, !.resp = SyncResponse(sy)]

\* the files after a store call that threw once n of its writes were done
\* (saveDocuments, saveIndex, updateMetadata, in this order)
PartialWrite(f, target, n) ==
  [documents |-> IF n >= 1 THEN target.documents ELSE f.documents,
   index |-> IF n >= 2 THEN target.index ELSE f.index,
   totalDocuments |-> IF n >= 3 THEN target.totalDocuments ELSE f.totalDocuments]

AddOp(batch) ==
  [kind |-> "add", batch |-> batch, ids |-> {}, qv |-> <<>>, k |-> 0, pct |-> 0]
ClearOp == [kind |-> "clear", batch |-> <<>>, ids |-> {}, qv |-> <<>>, k |-> 0, pct |-> 0]

SetFiles(f) ==
  /\ documents' = f.documents
  /\ index' = f.index
  /\ meta' = f.totalDocuments

\* ============================================================= SmartCache
\* A Map is a sequence of entries in insertion order; an entry carries its
\* key. The hit counters and the statistics are left out: no decision of
\* the cache reads them.
\* the clock counts in units of maxAge (ttl * 1000 ms)
MaxAge == 1
MaxTime == 2
\* similarityThreshold, in percent (new SmartCache(..., 0.92))
SimilarityThreshold == 92

MapHas(m, key) == \E i \in DOMAIN m : m[i].key = key
MapGet(m, key) == m[CHOOSE i \in DOMAIN m : m[i].key = key]
MapDelete(m, key) == SeqFilterIdx(m, {i \in DOMAIN m : m[i].key # key}, 1)
\* Map.set: an existing key keeps its position, a new key goes last
MapSet(m, key, entry) ==
  IF MapHas(m, key)
  THEN [i \in DOMAIN m |-> IF m[i].key = key THEN entry ELSE m[i]]
  ELSE Append(m, entry)

\* query.toLowerCase().trim() on the queries of the model
NormalizeQuery(query) ==
  CASE query = "BUTTON " -> "button"
    [] OTHER -> query

\* generateKey: md5 of the normalised query followed, when filters is given,
\* by JSON.stringify(filters); the digest is taken as free of collisions
generateKey(query, filtersGiven, filters) ==
  [query |-> NormalizeQuery(query), filtersGiven |-> filtersGiven,
   filters |-> IF filtersGiven THEN filters ELSE NoFilters]

CacheEntry(key, value, timestamp, embedding) ==
  [key |-> key, value |-> value, timestamp |-> timestamp, embedding |-> embedding]

\* mutant: entries never expire
Expired_Never(entry, t) == FALSE

Expired(entry, t) == t - entry.timestamp > MaxAge

\* step 1 of get: the exact entry is there and has not expired
ExactHit(c, key, t) == MapHas(c, key) /\ ~Expired(MapGet(c, key), t)

\* step 2 of get: the entries of the semantic map, in insertion order, that
\* are not expired and whose embedding is similar enough
SemanticHits(sc, embedding, t) ==
  IF Len(embedding) = 0 THEN {}
  ELSE {i \in DOMAIN sc :
          /\ Len(sc[i].embedding) > 0
          /\ ~Expired(sc[i], t)
          /\ SimAtLeast(cosineSimilarity(embedding, sc[i].embedding), SimilarityThreshold)}

MinOf(S) == CHOOSE i \in S : \A j \in S : i <= j

NoValue == [components |-> <<>>, scores |-> <<>>, confidence |-> 0, suggestions |-> <<>>]

\* get(query, embedding, filters): [hit, value, cache], cache being the exact
\* map after the call (the semantic map is never changed by get)
CacheGet(c, sc, query, embedding, filtersGiven, filters, t) ==
  LET key == generateKey(query, filtersGiven, filters)
  IN IF ExactHit(c, key, t)
     THEN [hit |-> TRUE, tier |-> "exact", value |-> MapGet(c, key).value,
           timestamp |-> MapGet(c, key).timestamp,
           cache |-> MapSet(MapDelete(c, key), key, MapGet(c, key))]
     ELSE LET c1 == IF MapHas(c, key) THEN MapDelete(c, key) ELSE c
              hits == SemanticHits(sc, embedding, t)
          IN IF hits # {}
             THEN [hit |-> TRUE, tier |-> "semantic", value |-> sc[MinOf(hits)].value,
                   timestamp |-> sc[MinOf(hits)].timestamp, cache |-> c1]
             ELSE [hit |-> FALSE, tier |-> "miss", value |-> NoValue, timestamp |-> t,
                   cache |-> c1]

NoGot ==
  [valid |-> FALSE, key |-> generateKey("", FALSE, NoFilters), found |-> FALSE,
   foundAge |-> 0, tier |-> "none", hitAge |-> 0]

\* what a get at time t found under its exact key in the map c it was given
\* and the age of the entry whose value it returned (res, the result)
GotOf(c, res, query, filtersGiven, filters, t) ==
  LET key == generateKey(query, filtersGiven, filters)
  IN [valid |-> TRUE, key |-> key, found |-> MapHas(c, key),
      foundAge |-> IF MapHas(c, key) THEN t - MapGet(c, key).timestamp ELSE 0,
      tier |-> res.tier, hitAge |-> t - res.timestamp]

\* set(query, value, embedding, filters): the two maps after the call
CacheSet(c, sc, query, value, embedding, filtersGiven, filters, t) ==
  LET key == generateKey(query, filtersGiven, filters)
      evict == Len(c) >= config.maxSize /\ Len(c) > 0
      c1 == IF evict THEN MapDelete(c, c[1].key) ELSE c
      sc1 == IF evict /\ MapHas(sc, c[1].key) THEN MapDelete(sc, c[1].key) ELSE sc
      entry == CacheEntry(key, value, t, embedding)
  IN [cache |-> MapSet(c1, key, entry),
      semanticCache |-> IF Len(embedding) > 0 THEN MapSet(sc1, key, entry) ELSE sc1]

Without(keys, key) == SeqFilterIdx(keys, {i \in DOMAIN keys : keys[i] # key}, 1)

\* get: an exact hit is a use of its key; an expired entry leaves the map
LruAfterGet(l, c, query, filtersGiven, filters, t) ==
  LET key == generateKey(query, filtersGiven, filters)
  IN [order |-> IF ExactHit(c, key, t) THEN Append(Without(l.order, key), key)
                ELSE Without(l.order, key),
      before |-> l.order, evicted |-> <<>>]

\* set: the first key of the exact map leaves it at capacity; the key set
\* is the last one used
LruAfterSet(l, c, query, filtersGiven, filters) ==
  LET key == generateKey(query, filtersGiven, filters)
      evict == Len(c) >= config.maxSize /\ Len(c) > 0
      kept == IF evict THEN Without(l.order, c[1].key) ELSE l.order
  IN [order |-> Append(Without(kept, key), key), before |-> l.order,
      evicted |-> IF evict THEN <<c[1].key>> ELSE <<>>]

\* ====================================================== searchComponents
Queries == {"button", "a clickable button", "table"}

\* contentLower.includes(queryLower) on the texts and queries of the model
ContentIncludes(content, query) ==
  \/ query \in {"button", "BUTTON "} /\ content \in {"Button triggers an action", "Button component"}
  \/ query = "button" /\ content = "<Button>ok</Button>"
  \/ query = "table" /\ content \in {"Table displays rows", "Table component"}

\* scores are kept in thousandths: 800 stands for 0.8
Min(a, b) == IF a <= b THEN a ELSE b

calculateRelevanceScore(doc, query) ==
  LET weighted == CASE doc.metadata.type = "description" -> 960
                    [] doc.metadata.type = "api" -> 800
                    [] doc.metadata.type = "example" -> 640
                    [] OTHER -> 800
      boosted == IF ContentIncludes(doc.content, query)
                 THEN (weighted * 13) \div 10 ELSE weighted
  IN Min(boosted, 1000)

\* `${doc.metadata.packageName}-${doc.metadata.componentName}`
ComponentKey(doc) == <<doc.metadata.packageName, doc.metadata.componentName>>

\* reconstructComponentDoc: the fields that depend on the metadata
reconstructComponentDoc(metadata) ==
  [packageName |-> metadata.packageName, componentName |-> metadata.componentName,
   tags |-> metadata.tags]

SumOf(s) == LET RECURSIVE S(_)
                S(i) == IF i = 0 THEN 0 ELSE s[i] + S(i - 1)
            IN S(Len(s))

MaxOf(s) == LET RECURSIVE M(_)
                M(i) == IF i = 1 THEN s[1] ELSE IF s[i] > M(i - 1) THEN s[i] ELSE M(i - 1)
            IN M(Len(s))

\* totalScore = max * 0.7 + mean * 0.3, in units of 1 / 600000
ScoreUnit == 60
TotalScore(scores) ==
  7 * ScoreUnit * MaxOf(scores) + 3 * ((ScoreUnit * SumOf(scores)) \div Len(scores))

RECURSIVE GroupHits(_, _, _)
\* componentMap: one group per component key, in the order of the first hit
GroupHits(hits, query, groups) ==
  IF hits = <<>> THEN groups
  ELSE LET doc == hits[1]
           at == {i \in DOMAIN groups : groups[i].key = ComponentKey(doc)}
           score == calculateRelevanceScore(doc, query)
       IN GroupHits(Tail(hits), query,
            IF at = {}
            THEN Append(groups, [key |-> ComponentKey(doc),
                                 component |-> reconstructComponentDoc(doc.metadata),
                                 scores |-> <<score>>])
            ELSE [i \in DOMAIN groups |->
                    IF i \in at THEN [groups[i] EXCEPT !.scores = Append(@, score)]
                    ELSE groups[i]])

RECURSIVE InsertByTotal(_, _)
InsertByTotal(sorted, g) ==
  IF sorted = <<>> THEN <<g>>
  ELSE IF TotalScore(g.scores) > TotalScore(sorted[1].scores)
       THEN <<g>> \o sorted
       ELSE <<sorted[1]>> \o InsertByTotal(Tail(sorted), g)

RECURSIVE SortByTotalFrom(_, _)
\* .sort((a, b) => b.totalScore - a.totalScore): stable, descending
SortByTotalFrom(groups, n) ==
  IF n = 0 THEN <<>> ELSE InsertByTotal(SortByTotalFrom(groups, n - 1), groups[n])

\* confidence = avg * 0.6 + max * 0.4 of the total scores, 0 without results
calculateConfidence(scores) ==
  IF Len(scores) = 0 THEN 0
  ELSE 6 * ((ScoreUnit * SumOf(scores)) \div Len(scores)) + 4 * ScoreUnit * MaxOf(scores)

generateSuggestions(components) ==
  IF Len(components) = 0
  THEN << <<"Try using more general terms in your search", "">>,
          <<"Check if the component name is correct", "">> >>
  ELSE IF Len(components) = 1
  THEN << <<"Found perfect match", components[1].componentName>> >>
  ELSE << <<"Found relevant components", Len(components)>>,
          <<"Top match", components[1].componentName>> >>

\* a search request; topK = 0 and threshold = -1 stand for an absent field,
\* the threshold is in percent
SearchRequest(query, topK, threshold, filtersGiven, filters) ==
  [query |-> query, topK |-> topK, threshold |-> threshold,
   filtersGiven |-> filtersGiven, filters |-> filters]

PackageFilter(pkg) == [NoFilters EXCEPT !.packageName = pkg]

\* request.topK || 10 is what the store is asked for
StoreTopK(req) == IF req.topK <= 0 THEN 10 ELSE req.topK
\* request.topK || 5 is where the groups are cut
SliceTopK(req) == IF req.topK <= 0 THEN 5 ELSE req.topK
\* request.threshold || 0.5
StoreThreshold(req) == IF req.threshold <= 0 THEN 50 ELSE req.threshold

\* the vector search of searchComponents
VectorResults(idx, docs, req, qv) ==
  IF req.filtersGiven
  THEN searchWithFilters(idx, docs, qv, req.filters, StoreTopK(req), StoreThreshold(req))
  ELSE similaritySearch(idx, docs, qv, StoreTopK(req), StoreThreshold(req))

RECURSIVE MapField(_, _)
MapField(groups, f) ==
  IF groups = <<>> THEN <<>>
  ELSE <<IF f = "component" THEN groups[1].component ELSE TotalScore(groups[1].scores)>>
       \o MapField(Tail(groups), f)

\* the response built from the vector results
BuildResponse(vectorResults, req) ==
  LET groups == GroupHits(vectorResults, req.query, <<>>)
      results == Take(SortByTotalFrom(groups, Len(groups)), SliceTopK(req))
      components == MapField(results, "component")
      scores == MapField(results, "score")
  IN [components |-> components, scores |-> scores,
      confidence |-> calculateConfidence(scores),
      suggestions |-> generateSuggestions(components)]

SearchRequests ==
  {SearchRequest(q, 0, -1, FALSE, NoFilters) : q \in Queries}
  \cup {SearchRequest(q, 0, -1, TRUE, PackageFilter(PkgOther)) : q \in Queries}
  \cup {SearchRequest("table", 1, -1, FALSE, NoFilters)}

NoSearchRequest == SearchRequest("", 0, -1, FALSE, NoFilters)

\* history: the search completed before this one, when the cache is enabled
NoLast == [valid |-> FALSE, req |-> NoSearchRequest, resp |-> NoValue, at |-> 0]

\* history: the topK and threshold the store was queried with
NoAsked == [topK |-> 0, threshold |-> -1]

\* history of a Search: embedTexts, queries and sets count the embedText
\* requests, the store queries and the cache.set calls it has made; hit
\* tells that its cache.get returned an entry. Of a Search whose store query
\* is followed read by read: idx is the index it loaded and beforeSync tells
\* that no Sync had been called when it loaded the index; origin, which
\* outlives the call, tells of the last cache.set whether the Search that
\* made it had loaded the index before any Sync was called and made the set
\* after a Sync that did not fail had returned ("stale") or not ("fresh")

SearchIdle ==
  [pc |-> "idle", req |-> NoSearchRequest, qv |-> <<>>, outcome |-> "none",
   tier |-> "none", resp |-> NoValue, last |-> NoLast, asked |-> NoAsked,
   embedTexts |-> 0, queries |-> 0, sets |-> 0, hit |-> FALSE,
   idx |-> <<>>, beforeSync |-> FALSE, origin |-> "none"]

InitSearch ==
  /\ config \in [cacheEnabled : BOOLEAN, maxSize : {CacheMaxSize}]
  /\ cache = <<>>
  /\ semanticCache = <<>> /\ lru = LruIdle
  /\ now = 0
  /\ srch = SearchIdle
  /\ got = NoGot
  /\ emb = EmbIdle
  /\ http = HttpIdle
  /\ stat = StatIdle

\* searchComponents is called: it runs up to `await embedText(query)`
SearchCall(req) ==
  /\ srch.pc = "idle"
  /\ budget.calls > 0
  /\ budget' = [budget EXCEPT !.calls = @ - 1]
  /\ srch' = [SearchIdle EXCEPT !.pc = "embed", !.req = req, !.last = srch.last,
                               !.embedTexts = 1,
                               !.origin = srch.origin]
  /\ UNCHANGED <<documents, index, meta, callerVars, tree, sync, passed, prevSync,
                 config, cache, semanticCache, now, got, lru>>
  /\ UNCHANGED httpVars

\* embedText throws: the Search fails with SEARCH_ERROR
SearchEmbedFails ==
  /\ srch.pc = "embed"
  /\ budget.failures > 0
  /\ budget' = [budget EXCEPT !.failures = @ - 1]
  /\ srch' = [srch EXCEPT !.pc = "ret", !.outcome = "error"]
  /\ UNCHANGED <<documents, index, meta, callerVars, tree, sync, passed, prevSync,
                 config, cache, semanticCache, now, got, lru>>
  /\ UNCHANGED httpVars

\* a Search that goes on to the store although cache.get returned an entry
SearchEmbedded_QueriesAfterHit ==
  /\ srch.pc = "embed"
  /\ LET qv == EmbeddingOf(srch.req.query)
         res == CacheGet(cache, semanticCache, srch.req.query, qv,
                         srch.req.filtersGiven, srch.req.filters, now)
     IN IF config.cacheEnabled
        THEN /\ cache' = res.cache
             /\ got' = GotOf(cache, res, srch.req.query, srch.req.filtersGiven,
                             srch.req.filters, now)
             /\ lru' = LruAfterGet(lru, cache, srch.req.query, srch.req.filtersGiven,
                                   srch.req.filters, now)
             /\ srch' = [srch EXCEPT !.pc = "query", !.qv = qv, !.hit = res.hit]
        ELSE /\ cache' = cache
             /\ got' = NoGot
             /\ lru' = lru
             /\ srch' = [srch EXCEPT !.pc = "query", !.qv = qv]
  /\ UNCHANGED httpVars
  /\ UNCHANGED <<documents, index, meta, callerVars, syncVars, config, semanticCache,
                 now>>

\* embedText returns; with the cache enabled cache.get follows: a hit is
\* returned, a miss goes on to the store
SearchEmbedded ==
  /\ srch.pc = "embed"
  /\ LET qv == EmbeddingOf(srch.req.query)
         res == CacheGet(cache, semanticCache, srch.req.query, qv,
                         srch.req.filtersGiven, srch.req.filters, now)
     IN IF config.cacheEnabled
        THEN /\ cache' = res.cache
             /\ got' = GotOf(cache, res, srch.req.query, srch.req.filtersGiven,
                             srch.req.filters, now)
             /\ lru' = LruAfterGet(lru, cache, srch.req.query, srch.req.filtersGiven,
                                   srch.req.filters, now)
             /\ srch' = IF res.hit
                        THEN [srch EXCEPT !.pc = "ret", !.qv = qv, !.outcome = "ok",
                                          !.tier = res.tier, !.resp = res.value,
                                          !.hit = TRUE]
                        ELSE [srch EXCEPT !.pc = "query", !.qv = qv]
        ELSE /\ cache' = cache
             /\ got' = NoGot
             /\ lru' = lru
             /\ srch' = [srch EXCEPT !.pc = "query", !.qv = qv]
  /\ UNCHANGED httpVars
  /\ UNCHANGED <<documents, index, meta, callerVars, syncVars, config, semanticCache,
                 now>>

\* the store query returns; grouping, scoring, response and cache.set
SearchQueried ==
  /\ srch.pc = "query"
  /\ LET response == BuildResponse(VectorResults(index, documents, srch.req, srch.qv),
                                   srch.req)
         put == CacheSet(cache, semanticCache, srch.req.query, response, srch.qv,
                         srch.req.filtersGiven, srch.req.filters, now)
     IN /\ srch' = [srch EXCEPT !.pc = "ret", !.outcome = "ok", !.tier = "store",
                                !.resp = response,
                                !.asked = [topK |-> StoreTopK(srch.req),
                                           threshold |-> StoreThreshold(srch.req)],
                                !.queries = @ + 1,
                                !.sets = IF config.cacheEnabled THEN @ + 1 ELSE @]
        /\ IF config.cacheEnabled
           THEN /\ cache' = put.cache /\ semanticCache' = put.semanticCache
                /\ lru' = LruAfterSet(lru, cache, srch.req.query, srch.req.filtersGiven,
                                      srch.req.filters)
           ELSE UNCHANGED <<cache, semanticCache, lru>>
  /\ got' = NoGot
  /\ UNCHANGED httpVars
  /\ UNCHANGED <<documents, index, meta, callerVars, syncVars, config, now>>

\* the caller takes the response (or the error)
SearchReturn ==
  /\ srch.pc = "ret"
  /\ srch' = [SearchIdle EXCEPT !.last =
                IF config.cacheEnabled /\ srch.outcome = "ok"
                THEN [valid |-> TRUE, req |-> srch.req, resp |-> srch.resp, at |-> now]
                ELSE NoLast,
                !.origin = srch.origin]
  /\ UNCHANGED <<documents, index, meta, callerVars, syncVars, config, cache,
                 semanticCache, now, got, lru>>
  /\ UNCHANGED httpVars

\* time passes; the clock is read by cache.get and cache.set only, so a
\* tick is taken when a Search is about to read it
Tick ==
  /\ now < MaxTime
  /\ config.cacheEnabled
  /\ srch.pc \in {"embed", "query"}
  /\ now' = now + 1
  /\ UNCHANGED <<documents, index, meta, callerVars, syncVars, config, cache,
                 semanticCache, srch, got, lru>>
  /\ UNCHANGED httpVars

InitCallersIdle ==
  /\ pc = [p \in Procs |-> "idle"]
  /\ op = [p \in Procs |-> NoOp]
  /\ loc = [p \in Procs |-> NoLoc]
  /\ base = [p \in Procs |-> NoFiles]
  /\ conc = [p \in Procs |-> 0]
  /\ peer = [p \in Procs |-> NoOp]
  /\ clean = TRUE
  /\ crashed = NoCrash
  /\ lastAdd = NoAdd

NoPrevSync == [valid |-> FALSE, req |-> NoRequest, status |-> "none", documents |-> <<>>]

InitSync(trees, calls) ==
  /\ tree \in trees
  /\ sync = SyncIdle
  /\ passed = <<>>
  /\ prevSync = NoPrevSync
  /\ budget = [calls |-> calls, failures |-> MaxFailures]

\* this.clearCache() runs in the step in which the try block reaches its
\* return
ClearCacheWhenFinished ==
  IF sync'.pc = "ret" /\ ~sync'.aborted
  THEN cache' = <<>> /\ semanticCache' = <<>> /\ lru' = LruIdle
  ELSE UNCHANGED <<cache, semanticCache, lru>>

\* syncComponents is called: it runs up to `await parseAllComponents()`
SyncCall(req) ==
  /\ sync.pc = "idle"
  /\ budget.calls > 0
  /\ budget' = [budget EXCEPT !.calls = @ - 1]
  /\ sync' = [SyncIdle EXCEPT !.pc = "parse", !.req = req]
  /\ passed' = <<>>
  /\ UNCHANGED <<documents, index, meta, callerVars, tree, prevSync>>
  /\ UNCHANGED <<searchVars, httpVars>>

\* a Sync that clears the store for forceReindex before it lists the
\* components
SyncParseFails_AfterClear ==
  /\ sync.pc = "parse"
  /\ ~tree.listable
  /\ sync' = Caught(sync)
  /\ IF sync.req.forceReindex
     THEN documents' = <<>> /\ index' = <<>> /\ meta' = 0
     ELSE UNCHANGED <<documents, index, meta>>
  /\ UNCHANGED <<callerVars, tree, passed, prevSync, budget>>
  /\ UNCHANGED <<searchVars, httpVars>>

\* parseAllComponents throws: the listing of <sourcePath>/components failed
SyncParseFails ==
  /\ sync.pc = "parse"
  /\ ~tree.listable
  /\ sync' = Caught(sync)
  /\ UNCHANGED <<documents, index, meta, callerVars, tree, passed, prevSync, budget>>
  /\ UNCHANGED <<searchVars, httpVars>>

\* parseAllComponents returns; the package filter; without forceReindex the
\* tasks of the first batch start at once
SyncParse ==
  /\ sync.pc = "parse"
  /\ tree.listable
  /\ LET parsed == parseAllComponents(tree.dirs)
         sy == [sync EXCEPT !.processedCount = Len(parsed),
                            !.toSync = componentsToSync(parsed, sync.req)]
     IN sync' = IF sync.req.forceReindex THEN [sy EXCEPT !.pc = "clear"]
                ELSE EnterBatch(sy, 0)
  /\ UNCHANGED <<documents, index, meta, callerVars, tree, passed, prevSync, budget>>
  /\ ClearCacheWhenFinished
  /\ UNCHANGED <<config, now, srch, got>>
  /\ UNCHANGED httpVars

\* mutant: forceReindex goes on to the first batch without clearing the store
SyncClear_KeepsStore ==
  /\ sync.pc = "clear"
  /\ sync' = EnterBatch(sync, 0)
  /\ UNCHANGED <<documents, index, meta, callerVars, tree, passed, prevSync, budget>>
  /\ ClearCacheWhenFinished
  /\ UNCHANGED <<config, now, srch, got>>
  /\ UNCHANGED httpVars

\* await this.vectorStore.clear() returns; the first batch starts
SyncClear ==
  /\ sync.pc = "clear"
  /\ SetFiles(NoFiles)
  /\ sync' = EnterBatch(sync, 0)
  /\ UNCHANGED <<callerVars, tree, passed, prevSync, budget>>
  /\ ClearCacheWhenFinished
  /\ UNCHANGED <<config, now, srch, got>>
  /\ UNCHANGED httpVars

\* vectorStore.clear() throws after n of its three writes
SyncClearFails(n) ==
  /\ sync.pc = "clear"
  /\ budget.failures > 0
  /\ budget' = [budget EXCEPT !.failures = @ - 1]
  /\ SetFiles(PartialWrite(Files, NoFiles, n))
  /\ sync' = Caught(sync)
  /\ UNCHANGED <<callerVars, tree, passed, prevSync>>
  /\ UNCHANGED <<searchVars, httpVars>>

\* mutant: a task that finishes before one mapped before it takes the place
\* of that one in the results
TaskEmbedded_InOrderOfCompletion(i) ==
  /\ sync.pc = "tasks"
  /\ i \in DOMAIN sync.tasks
  /\ sync.tasks[i].state = "inflight"
  /\ LET first == CHOOSE j \in DOMAIN sync.tasks :
                    /\ sync.tasks[j].state = "inflight"
                    /\ \A k \in 1..(j - 1) : sync.tasks[k].state = "done"
         comp == BatchOf(sync.toSync, sync.batchIndex)[i].info
     IN sync' = [sync EXCEPT !.tasks[first] =
                   TaskOk(comp.componentName, createComponentVectors(comp)),
                             !.overtaken = @ \/ Overtakes(sync, i)]
  /\ UNCHANGED <<documents, index, meta, callerVars, tree, passed, prevSync, budget>>
  /\ UNCHANGED <<searchVars, httpVars>>

\* the embedding call of task i of the current batch returns: the vectors
\* of its component are built
TaskEmbedded(i) ==
  /\ sync.pc = "tasks"
  /\ i \in DOMAIN sync.tasks
  /\ sync.tasks[i].state = "inflight"
  /\ LET comp == BatchOf(sync.toSync, sync.batchIndex)[i].info
     IN sync' = [sync EXCEPT !.tasks[i] =
                   TaskOk(comp.componentName, createComponentVectors(comp)),
                             !.overtaken = @ \/ Overtakes(sync, i)]
  /\ UNCHANGED <<documents, index, meta, callerVars, tree, passed, prevSync, budget>>
  /\ UNCHANGED <<searchVars, httpVars>>

\* the embedding call of task i throws: VECTOR_CREATION_ERROR, caught by
\* the task
TaskEmbedFails(i) ==
  /\ sync.pc = "tasks"
  /\ i \in DOMAIN sync.tasks
  /\ sync.tasks[i].state = "inflight"
  /\ budget.failures > 0
  /\ budget' = [budget EXCEPT !.failures = @ - 1]
  /\ sync' = [sync EXCEPT !.tasks[i] = TaskFailed(sync.tasks[i].component, "vector"),
                          !.overtaken = @ \/ Overtakes(sync, i)]
  /\ UNCHANGED <<documents, index, meta, callerVars, tree, passed, prevSync>>
  /\ UNCHANGED <<searchVars, httpVars>>

\* Promise.all(batchPromises) resolves: the results are collected and, when
\* there are vectors, addDocuments is called; otherwise the next batch starts
SyncCollect ==
  /\ sync.pc = "tasks"
  /\ \A i \in DOMAIN sync.tasks : sync.tasks[i].state = "done"
  /\ LET vectorDocuments == CollectVectors(sync.tasks)
         sy == [sync EXCEPT !.successCount = @ + CountSuccess(sync.tasks),
                            !.errors = @ \o CollectErrors(sync.tasks),
                            !.results = @ \o sync.tasks,
                            !.vectorDocuments = vectorDocuments]
     IN /\ sync' = IF Len(vectorDocuments) > 0 THEN [sy EXCEPT !.pc = "addDocuments"]
                   ELSE EnterBatch(sy, sync.batchIndex + 1)
        /\ passed' = passed \o vectorDocuments
  /\ UNCHANGED <<documents, index, meta, callerVars, tree, prevSync, budget>>
  /\ ClearCacheWhenFinished
  /\ UNCHANGED <<config, now, srch, got>>
  /\ UNCHANGED httpVars

\* await this.vectorStore.addDocuments(vectorDocuments) returns; the next
\* batch starts or the Sync finishes
SyncAddDocuments ==
  /\ sync.pc = "addDocuments"
  /\ SetFiles(OpResult(Files, AddOp(sync.vectorDocuments)))
  /\ sync' = EnterBatch(sync, sync.batchIndex + 1)
  /\ UNCHANGED <<callerVars, tree, passed, prevSync, budget>>
  /\ ClearCacheWhenFinished
  /\ UNCHANGED <<config, now, srch, got>>
  /\ UNCHANGED httpVars

\* addDocuments throws after n of its three writes
SyncAddDocumentsFails(n) ==
  /\ sync.pc = "addDocuments"
  /\ budget.failures > 0
  /\ n > 0 => NewDocs(documents, sync.vectorDocuments) # <<>>
  /\ budget' = [budget EXCEPT !.failures = @ - 1]
  /\ SetFiles(PartialWrite(Files, OpResult(Files, AddOp(sync.vectorDocuments)), n))
  /\ sync' = Caught(sync)
  /\ UNCHANGED <<callerVars, tree, passed, prevSync>>
  /\ UNCHANGED <<searchVars, httpVars>>

\* the caller takes the response
SyncReturn ==
  /\ sync.pc = "ret"
  /\ prevSync' = [valid |-> TRUE, req |-> sync.req, status |-> sync.resp.status,
                  documents |-> documents]
  /\ sync' = SyncIdle
  /\ UNCHANGED <<documents, index, meta, callerVars, tree, passed, budget>>
  /\ UNCHANGED <<searchVars, httpVars>>

NextSync ==
  \/ \E req \in SyncRequests : SyncCall(req)
  \/ SyncParseFails
  \/ SyncParse
  \/ SyncClear
  \/ \E n \in 0..2 : SyncClearFails(n)
  \/ \E i \in 1..BATCH_SIZE : TaskEmbedded(i)
  \/ \E i \in 1..BATCH_SIZE : TaskEmbedFails(i)
  \/ SyncCollect
  \/ SyncAddDocuments
  \/ \E n \in 0..2 : SyncAddDocumentsFails(n)
  \/ SyncReturn

\* consistent stores the service may find when it starts
ServiceStores == {<<>>, <<PoolDocs[1], PoolDocs[3]>>}

InitFiles ==
  \E d \in ServiceStores :
    /\ documents = d
    /\ index = MapIndexEntry(d)
    /\ meta = Len(d)

Init == InitFiles /\ InitCallersIdle /\ opsLeft = 0 /\ InitSync(Trees, MaxCalls)
        /\ InitSearch

Next ==
  \/ \E req \in SyncRequests : SyncCall(req)
  \/ SyncParseFails
  \/ SyncParse
  \/ SyncClear
  \/ \E n \in 0..2 : SyncClearFails(n)
  \/ \E i \in 1..BATCH_SIZE : TaskEmbedded(i)
  \/ \E i \in 1..BATCH_SIZE : TaskEmbedFails(i)
  \/ SyncCollect
  \/ SyncAddDocuments
  \/ \E n \in 0..2 : SyncAddDocumentsFails(n)
  \/ SyncReturn
  \/ \E req \in SearchRequests : SearchCall(req)
  \/ SearchEmbedFails
  \/ SearchEmbedded
  \/ SearchQueried
  \/ SearchReturn
  \/ Tick

Spec == Init /\ [][Next]_vars

\* a single Sync of a tree of eleven directories (two batches)
InitBatch == InitFiles /\ InitCallersIdle /\ opsLeft = 0
             /\ InitSync({BigTree, Tree(FALSE, <<>>)}, 1) /\ InitSearch

SpecBatch == InitBatch /\ [][NextSync]_vars

\* twelve readable directories: a first batch of ten tasks that all reach
\* the embedding provider and a second batch of two
FullTree ==
  Tree(TRUE, [i \in 1..12 |->
                Dir(<<"alert", "button", "card", "menu", "modal", "radio", "select",
                      "slider", "switch", "table", "tabs", "upload">>[i],
                    TRUE, "", "", <<>>)])

InitTasks ==
  /\ documents = <<>> /\ index = <<>> /\ meta = 0
  /\ InitCallersIdle /\ opsLeft = 0
  /\ InitSync({FullTree, Tree(FALSE, <<>>)}, 1) /\ InitSearch

SpecTasks == InitTasks /\ [][NextSync]_vars

\* ------------------------------------------- SmartCache called directly
MaxCacheOps == 4

\* the response handed to set for a query: what searchComponents builds for
\* it from a store holding Button and Table
CacheValueOf(query) ==
  LET docs == <<PoolDocs[1], PoolDocs[3]>>
      req == SearchRequest(query, 0, -1, FALSE, NoFilters)
  IN BuildResponse(VectorResults(MapIndexEntry(docs), docs, req, EmbeddingOf(query)), req)

\* the embedding argument is optional
Embeddings(query) == {EmbeddingOf(query), <<>>}

\* get(query, embedding, filters): no await inside, one step
CacheGetCall(query, embedding) ==
  /\ budget.calls > 0
  /\ budget' = [budget EXCEPT !.calls = @ - 1]
  /\ LET res == CacheGet(cache, semanticCache, query, embedding, FALSE, NoFilters, now)
     IN /\ cache' = res.cache
        /\ got' = GotOf(cache, res, query, FALSE, NoFilters, now)
        /\ lru' = LruAfterGet(lru, cache, query, FALSE, NoFilters, now)
  /\ UNCHANGED httpVars
  /\ UNCHANGED <<documents, index, meta, callerVars, tree, sync, passed, prevSync,
                 config, semanticCache, now, srch>>

\* set(query, value, embedding, filters)
CacheSetCall(query, value, embedding) ==
  /\ budget.calls > 0
  /\ budget' = [budget EXCEPT !.calls = @ - 1]
  /\ LET put == CacheSet(cache, semanticCache, query, value, embedding, FALSE,
                         NoFilters, now)
     IN cache' = put.cache /\ semanticCache' = put.semanticCache
  /\ lru' = LruAfterSet(lru, cache, query, FALSE, NoFilters)
  /\ got' = NoGot
  /\ UNCHANGED httpVars
  /\ UNCHANGED <<documents, index, meta, callerVars, tree, sync, passed, prevSync,
                 config, now, srch>>

\* clear()
CacheClearCall ==
  /\ budget.calls > 0
  /\ budget' = [budget EXCEPT !.calls = @ - 1]
  /\ cache' = <<>>
  /\ semanticCache' = <<>>
  /\ lru' = LruIdle
  /\ got' = NoGot
  /\ UNCHANGED httpVars
  /\ UNCHANGED <<documents, index, meta, callerVars, tree, sync, passed, prevSync,
                 config, now, srch>>

\* time passes between two calls
Elapse ==
  /\ now < MaxTime
  /\ now' = now + 1
  /\ UNCHANGED <<documents, index, meta, callerVars, syncVars, config, cache,
                 semanticCache, srch, got, lru>>
  /\ UNCHANGED httpVars

InitCache ==
  /\ documents = <<>> /\ index = <<>> /\ meta = 0
  /\ InitCallersIdle /\ opsLeft = 0
  /\ tree = Tree(TRUE, <<>>) /\ sync = SyncIdle /\ passed = <<>> /\ prevSync = NoPrevSync
  /\ budget = [calls |-> MaxCacheOps, failures |-> 0]
  /\ config = [cacheEnabled |-> TRUE, maxSize |-> CacheMaxSize]
  /\ cache = <<>> /\ semanticCache = <<>> /\ lru = LruIdle /\ now = 0 /\ srch = SearchIdle /\ got = NoGot
  /\ emb = EmbIdle /\ http = HttpIdle /\ stat = StatIdle

NextCache ==
  \/ \E q \in Queries : \E e \in Embeddings(q) : CacheGetCall(q, e)
  \/ \E q \in Queries : \E e \in Embeddings(q) : CacheSetCall(q, CacheValueOf(q), e)
  \/ CacheClearCall
  \/ Elapse

SpecCache == InitCache /\ [][NextCache]_vars

\* -------------------------------------- a SmartCache of three entries
\* gets and sets of three keys on a cache with room for three, within maxAge
LruMaxSize == 3
MaxLruOps == 5

InitLru ==
  /\ documents = <<>> /\ index = <<>> /\ meta = 0
  /\ InitCallersIdle /\ opsLeft = 0
  /\ tree = Tree(TRUE, <<>>) /\ sync = SyncIdle /\ passed = <<>> /\ prevSync = NoPrevSync
  /\ budget = [calls |-> MaxLruOps, failures |-> 0]
  /\ config = [cacheEnabled |-> TRUE, maxSize |-> LruMaxSize]
  /\ cache = <<>> /\ semanticCache = <<>> /\ lru = LruIdle /\ now = 0
  /\ srch = SearchIdle /\ got = NoGot
  /\ emb = EmbIdle /\ http = HttpIdle /\ stat = StatIdle

NextLru ==
  \/ \E q \in Queries : CacheGetCall(q, EmbeddingOf(q))
  \/ \E q \in Queries : CacheSetCall(q, CacheValueOf(q), EmbeddingOf(q))

SpecLru == InitLru /\ [][NextLru]_vars

\* ---------------------------------- searches on a store nobody changes
MaxSearches == 3

InitSearches ==
  /\ documents = <<PoolDocs[1], PoolDocs[3]>>
  /\ index = MapIndexEntry(documents)
  /\ meta = Len(documents)
  /\ InitCallersIdle /\ opsLeft = 0
  /\ tree = Tree(TRUE, <<>>) /\ sync = SyncIdle /\ passed = <<>> /\ prevSync = NoPrevSync
  /\ budget = [calls |-> MaxSearches, failures |-> MaxFailures]
  /\ config = [cacheEnabled |-> TRUE, maxSize |-> CacheMaxSize]
  /\ cache = <<>> /\ semanticCache = <<>> /\ lru = LruIdle /\ now = 0 /\ srch = SearchIdle /\ got = NoGot
  /\ emb = EmbIdle /\ http = HttpIdle /\ stat = StatIdle

NextSearches ==
  \/ \E req \in SearchRequests : SearchCall(req)
  \/ SearchEmbedFails
  \/ SearchEmbedded
  \/ SearchQueried
  \/ SearchReturn
  \/ Tick

SpecSearches == InitSearches /\ [][NextSearches]_vars

\* ------------------------------------- POST /api/rag/search, createEmbedding
maxRetries == 3
retryDelay == 1000

\* a message is the sequence of its words; String.prototype.includes looks
\* for the words of its argument in a row
Includes(msg, words) ==
  \E i \in 1..(Len(msg) - Len(words) + 1) : SubSeq(msg, i, i + Len(words) - 1) = words

\* `${error}` of an Error: its name, then its message
ErrorString(name, msg) == <<name>> \o msg

\* error.message of what client.embeddings.create throws: quota exhausted,
\* key rejected, connection lost
ProviderErrors ==
  {<<"429", "You", "exceeded", "your", "current", "quota">>,
   <<"401", "Incorrect", "API", "key", "provided">>,
   <<"Connection", "error">>}

\* what createEmbedding throws after its last attempt failed with err
ThrownMessage(err) ==
  IF Includes(err, <<"quota">>)
  THEN <<"OpenAI", "API", "quota", "exceeded", "Please", "check", "your", "billing">>
  ELSE IF Includes(err, <<"401">>)
  THEN <<"OpenAI", "API", "authentication", "failed", "Please", "check", "your",
         "API", "key">>
  ELSE <<"OpenAI", "API", "error", "after", ToString(maxRetries), "attempts">> \o err

\* embedText: EmbeddingError(`Failed to generate embedding for text: ${error}`)
EmbedTextMessage(msg) ==
  <<"Failed", "to", "generate", "embedding", "for", "text">> \o ErrorString("RAGError", msg)

\* searchComponents: RAGError(`Search failed: ${error}`, 'SEARCH_ERROR')
SearchFailedMessage(msg) == <<"Search", "failed">> \o ErrorString("RAGError", msg)

\* the catch of POST: the status for an Error with this message
StatusOf(message) ==
  IF Includes(message, <<"OpenAI", "API">>) THEN 503
  ELSE IF Includes(message, <<"quota">>) THEN 429
  ELSE IF Includes(message, <<"authentication">>) THEN 401
  ELSE 500

\* request bodies: query missing or given, topK absent (0), given or out of
\* range, threshold absent (-1), 0, 0.5 or out of range
Bodies ==
  [query : {"", "button"}, topK : {0, 2, 51}, threshold : {-1, 0, 50, 150}]

\* body.topK && (...), body.threshold && (...): absent and 0 are falsy
BodyValid(body) ==
  /\ body.query # ""
  /\ ~(body.topK # 0 /\ (body.topK < 1 \/ body.topK > 50))
  /\ ~(body.threshold > 0 /\ body.threshold > 100)

\* searchRequest = {query, topK: body.topK || 5, threshold: body.threshold || 0.5}
RouteRequest(body) ==
  SearchRequest(body.query, IF body.topK = 0 THEN 5 ELSE body.topK,
                IF body.threshold <= 0 THEN 50 ELSE body.threshold, FALSE, NoFilters)

InitRoute ==
  /\ documents = <<PoolDocs[1], PoolDocs[3]>>
  /\ index = MapIndexEntry(documents)
  /\ meta = Len(documents)
  /\ InitCallersIdle /\ opsLeft = 0
  /\ tree = Tree(TRUE, <<>>) /\ sync = SyncIdle /\ passed = <<>> /\ prevSync = NoPrevSync
  /\ budget = [calls |-> MaxCalls, failures |-> 0]
  /\ config = [cacheEnabled |-> TRUE, maxSize |-> CacheMaxSize]
  /\ cache = <<>> /\ semanticCache = <<>> /\ lru = LruIdle /\ now = 0 /\ srch = SearchIdle /\ got = NoGot
  /\ emb = EmbIdle /\ http = HttpIdle /\ stat = StatIdle

routeFrame == <<documents, index, meta, callerVars, tree, sync, passed, prevSync,
                searchVars, stat>>

\* POST: the body is validated, the API key is looked up, a new RAGService
\* is made and initialized, searchComponents calls embedText, which calls
\* createEmbedding, which awaits the provider for the first time
Post(body, apiKey) ==
  /\ http.pc = "idle"
  /\ budget.calls > 0
  /\ budget' = [budget EXCEPT !.calls = @ - 1]
  /\ IF ~BodyValid(body)
     THEN /\ http' = [HttpIdle EXCEPT !.pc = "respond", !.body = body, !.status = 400]
          /\ emb' = emb
     ELSE IF ~apiKey
     THEN /\ http' = [HttpIdle EXCEPT !.pc = "respond", !.body = body, !.status = 500]
          /\ emb' = emb
     ELSE /\ http' = [HttpIdle EXCEPT !.pc = "embed", !.body = body]
          /\ emb' = [EmbIdle EXCEPT !.pc = "call", !.attempt = 1,
                                    !.texts = <<body.query>>, !.input = <<body.query>>]
  /\ UNCHANGED routeFrame

\* the orders in which the provider may list the items of its response
Orders(n) == {f \in [1..n -> 1..n] : \A i, j \in 1..n : i # j => f[i] # f[j]}

\* response.data for the input, listed in this order; index counts from 0
ResponseData(input, order) ==
  [k \in 1..Len(input) |->
     [index |-> order[k] - 1, embedding |-> EmbeddingOf(input[order[k]])]]

\* response.data.sort((a, b) => a.index - b.index).map(item => item.embedding)
EmbeddingsByIndex(data) ==
  [i \in 1..Len(data) |-> data[CHOOSE k \in 1..Len(data) : data[k].index = i - 1].embedding]

\* createEmbedding: client.embeddings.create returns the vectors, in some
\* order
ProviderReturns ==
  /\ emb.pc = "call"
  /\ \E order \in Orders(Len(emb.input)) :
       emb' = [emb EXCEPT !.pc = "ret", !.calls = @ + 1, !.outcome = "ok",
                          !.result = EmbeddingsByIndex(ResponseData(emb.input, order))]
  /\ UNCHANGED <<routeFrame, budget, http>>

\* mutant: the first failure of the provider is thrown at once
ProviderThrows_NoRetry(err) ==
  /\ emb.pc = "call"
  /\ emb' = [emb EXCEPT !.pc = "ret", !.calls = @ + 1, !.errors = Append(@, err),
                        !.outcome = "thrown", !.message = ThrownMessage(err)]
  /\ UNCHANGED <<routeFrame, budget, http>>

\* createEmbedding: client.embeddings.create throws; a delay and another
\* attempt follow unless this was the last attempt
ProviderThrows(err) ==
  /\ emb.pc = "call"
  /\ emb' = IF emb.attempt < maxRetries
            THEN [emb EXCEPT !.pc = "delay", !.calls = @ + 1, !.errors = Append(@, err),
                             !.waits = Append(@, retryDelay * emb.attempt)]
            ELSE [emb EXCEPT !.pc = "ret", !.calls = @ + 1, !.errors = Append(@, err),
                             !.outcome = "thrown", !.message = ThrownMessage(err)]
  /\ UNCHANGED <<routeFrame, budget, http>>

\* createEmbedding: await this.delay(retryDelay * attempt) is over
DelayDone ==
  /\ emb.pc = "delay"
  /\ emb' = [emb EXCEPT !.pc = "call", !.attempt = @ + 1]
  /\ UNCHANGED <<routeFrame, budget, http>>

\* the embedding arrived: searchComponents (of the new service, whose cache
\* is empty) queries the store and builds the response; POST answers 200
PostSearched ==
  /\ http.pc = "embed"
  /\ emb.pc = "ret" /\ emb.outcome = "ok"
  /\ LET req == RouteRequest(http.body)
     IN http' = [http EXCEPT !.pc = "respond", !.status = 200,
                   !.data = BuildResponse(VectorResults(index, documents, req,
                                                        emb.result[1]), req),
                   !.served = "searchComponents"]
  /\ emb' = EmbIdle
  /\ UNCHANGED <<routeFrame, budget>>

\* createEmbedding threw: embedText and searchComponents wrap the error,
\* the catch of POST picks the status from the message
PostFailed ==
  /\ http.pc = "embed"
  /\ emb.pc = "ret" /\ emb.outcome = "thrown"
  /\ LET message == SearchFailedMessage(EmbedTextMessage(emb.message))
     IN http' = [http EXCEPT !.pc = "respond", !.status = StatusOf(message),
                             !.message = message, !.errors = emb.errors,
                             !.served = "searchComponents"]
  /\ emb' = EmbIdle
  /\ UNCHANGED <<routeFrame, budget>>

\* the response is sent
PostRespond ==
  /\ http.pc = "respond"
  /\ http' = HttpIdle
  /\ UNCHANGED <<routeFrame, budget, emb>>

NextRoute ==
  \/ \E body \in Bodies, apiKey \in BOOLEAN : Post(body, apiKey)
  \/ ProviderReturns
  \/ \E err \in ProviderErrors : ProviderThrows(err)
  \/ DelayDone
  \/ PostSearched
  \/ PostFailed
  \/ PostRespond

SpecRoute == InitRoute /\ [][NextRoute]_vars

\* ------------------------------------------------------- getStatus, getStats
\* getStats on the documents loaded: the number of distinct component
\* names, the number of documents, the documents of each package
getStats(docs) ==
  [totalComponents |-> Cardinality({docs[i].metadata.componentName : i \in DOMAIN docs}),
   totalDocuments |-> Len(docs),
   packageStats |-> [p \in {docs[i].metadata.packageName : i \in DOMAIN docs} |->
                       Cardinality({i \in DOMAIN docs : docs[i].metadata.packageName = p})]]

\* getStatus is called: getStats runs up to `await this.loadDocuments()`
StatusCall ==
  /\ stat.pc = "idle"
  /\ stat' = [stat EXCEPT !.pc = "load"]
  /\ UNCHANGED <<documents, index, meta, callerVars, syncVars, searchVars, emb, http>>

\* loadDocuments returns; the stats are computed from what it read
StatusLoaded ==
  /\ stat.pc = "load"
  /\ stat' = [pc |-> "ret", stats |-> getStats(documents), produced |-> passed,
              afterSync |-> IF sync.pc = "idle" /\ prevSync.valid THEN prevSync.status
                            ELSE "none"]
  /\ UNCHANGED <<documents, index, meta, callerVars, syncVars, searchVars, emb, http>>

\* the caller takes {available: true, stats, ...}
StatusReturn ==
  /\ stat.pc = "ret"
  /\ stat' = [stat EXCEPT !.pc = "idle"]
  /\ UNCHANGED <<documents, index, meta, callerVars, syncVars, searchVars, emb, http>>

\* the last tree holds a well-formed directory and one with neither
\* index.en-US.md nor a demo
StatusTrees == {Tree(FALSE, <<>>), Tree(TRUE, <<DirButton>>),
                Tree(TRUE, <<DirTable, DirModalUnreadable>>),
                Tree(TRUE, <<DirButton, DirTable>>)}

InitStatus ==
  /\ documents = <<>> /\ index = <<>> /\ meta = 0
  /\ InitCallersIdle /\ opsLeft = 0
  /\ InitSync(StatusTrees, MaxCalls)
  /\ config = [cacheEnabled |-> FALSE, maxSize |-> CacheMaxSize]
  /\ cache = <<>> /\ semanticCache = <<>> /\ lru = LruIdle /\ now = 0 /\ srch = SearchIdle /\ got = NoGot
  /\ emb = EmbIdle /\ http = HttpIdle /\ stat = StatIdle

NextStatus ==
  \/ NextSync
  \/ StatusCall
  \/ StatusLoaded
  \/ StatusReturn

SpecStatus == InitStatus /\ [][NextStatus]_vars

\* ---------------------------------------------------- embedTexts on its own
MaxTexts == 3

EmbedTexts == {"Button triggers an action", "## API type size onClick", " "}

TextLists == UNION {[1..n -> EmbedTexts] : n \in 0..MaxTexts}

InitEmbed ==
  /\ documents = <<>> /\ index = <<>> /\ meta = 0
  /\ InitCallersIdle /\ opsLeft = 0
  /\ tree = Tree(TRUE, <<>>) /\ sync = SyncIdle /\ passed = <<>> /\ prevSync = NoPrevSync
  /\ budget = [calls |-> MaxCalls, failures |-> 0]
  /\ config = [cacheEnabled |-> TRUE, maxSize |-> CacheMaxSize]
  /\ cache = <<>> /\ semanticCache = <<>> /\ lru = LruIdle /\ now = 0 /\ srch = SearchIdle /\ got = NoGot
  /\ emb = EmbIdle /\ http = HttpIdle /\ stat = StatIdle

\* embedTexts(texts): [] for no texts, an error when no text is left after
\* the blank ones are dropped, otherwise createEmbedding(validTexts) up to
\* its first provider call
EmbedTextsCall(texts) ==
  /\ emb.pc = "idle"
  /\ budget.calls > 0
  /\ budget' = [budget EXCEPT !.calls = @ - 1]
  /\ LET validTexts == SeqFilterIdx(texts, {i \in DOMAIN texts : ~IsBlank(texts[i])}, 1)
     IN emb' = IF Len(texts) = 0
               THEN [EmbIdle EXCEPT !.pc = "ret", !.outcome = "ok"]
               ELSE IF Len(validTexts) = 0
               THEN [EmbIdle EXCEPT !.pc = "ret", !.texts = texts, !.outcome = "thrown",
                                    !.message = <<"No", "valid", "texts", "provided">>]
               ELSE [EmbIdle EXCEPT !.pc = "call", !.attempt = 1, !.texts = texts,
                                    !.input = validTexts]
  /\ UNCHANGED <<routeFrame, http>>

\* the caller of embedTexts takes the vectors (or the error)
EmbedTextsReturn ==
  /\ emb.pc = "ret"
  /\ emb' = EmbIdle
  /\ UNCHANGED <<routeFrame, budget, http>>

NextEmbed ==
  \/ \E texts \in TextLists : EmbedTextsCall(texts)
  \/ ProviderReturns
  \/ \E err \in ProviderErrors : ProviderThrows(err)
  \/ DelayDone
  \/ EmbedTextsReturn

SpecEmbed == InitEmbed /\ [][NextEmbed]_vars

\* every awaited promise settles: the provider answers or fails each call and
\* each delay runs out
SpecEmbedFair ==
  /\ SpecEmbed
  /\ WF_vars(ProviderReturns \/ \E err \in ProviderErrors : ProviderThrows(err))
  /\ WF_vars(DelayDone)

\* ------------------------------------- createComponentVectors on its own
\* component documents with and without a description, an api section and
\* examples, blank ones included
VectorComponents ==
  {ComponentDoc(PkgBasic, "Button", description, api, examples, extractTags("button")) :
     description \in {"Button triggers an action", " "},
     api \in {"## API type size onClick", " ", ApiNotAvailable},
     examples \in {<<>>, <<"<Button>ok</Button>">>, <<" ", "<Button>ok</Button>">>}}

\* createComponentVectors(component) up to `await embedTexts(texts)`: [] when
\* no text was collected, otherwise embedTexts drops the blank texts and
\* throws or goes on to createEmbedding
VectorsCall(component) ==
  /\ emb.pc = "idle"
  /\ budget.calls > 0
  /\ budget' = [budget EXCEPT !.calls = @ - 1]
  /\ LET facets == Facets(component)
         texts == [n \in DOMAIN facets |-> facets[n].content]
         validTexts == SeqFilterIdx(texts, {i \in DOMAIN texts : ~IsBlank(texts[i])}, 1)
     IN emb' = IF Len(texts) = 0
               THEN [EmbIdle EXCEPT !.pc = "vectors", !.outcome = "ok",
                                    !.component = component]
               ELSE IF Len(validTexts) = 0
               THEN [EmbIdle EXCEPT !.pc = "ret", !.texts = texts, !.outcome = "thrown",
                                    !.message = <<"No", "valid", "texts", "provided">>,
                                    !.component = component]
               ELSE [EmbIdle EXCEPT !.pc = "call", !.attempt = 1, !.texts = texts,
                                    !.input = validTexts, !.component = component]
  /\ UNCHANGED <<routeFrame, http>>

\* embedTexts returns: embeddings.map((embedding, index) => ...) pairs
\* embedding number index with contentList[index] and metadataList[index];
\* an error of embedTexts becomes VECTOR_CREATION_ERROR
VectorsBuilt ==
  /\ emb.pc = "ret"
  /\ LET component == emb.component
         facets == Facets(component)
     IN emb' = IF emb.outcome = "ok"
               THEN [emb EXCEPT !.pc = "vectors", !.vectors =
                       [n \in DOMAIN emb.result |->
                          Doc(generateDocumentId(component.componentName,
                                                 IF facets[n].type = "example"
                                                 THEN ExampleType[n] ELSE facets[n].type,
                                                 facets[n].content),
                              facets[n].content,
                              emb.result[n],
                              Meta(component.componentName, component.packageName,
                                   facets[n].type, component.tags))]]
               ELSE [emb EXCEPT !.pc = "vectors"]
  /\ UNCHANGED <<routeFrame, budget, http>>

\* the caller of createComponentVectors takes the vectors (or the error)
VectorsReturn ==
  /\ emb.pc = "vectors"
  /\ emb' = EmbIdle
  /\ UNCHANGED <<routeFrame, budget, http>>

NextVectors ==
  \/ \E component \in VectorComponents : VectorsCall(component)
  \/ ProviderReturns
  \/ \E err \in ProviderErrors : ProviderThrows(err)
  \/ DelayDone
  \/ VectorsBuilt
  \/ VectorsReturn

SpecVectors == InitEmbed /\ [][NextVectors]_vars

\* ------------------------------------------------------ POST /api/rag/sync
\* the source paths of the model: none given, a path that does not exist, a
\* directory the process may not read, and a component source tree
SourcePaths == {"", "/missing", "/unreadable", "/src"}

\* what is found under a source path: readdir of <sourcePath>/components
\* throws ENOENT or EACCES for the two bad paths
TreeAt(sourcePath) ==
  IF sourcePath = "/src" THEN Tree(TRUE, <<DirButton>>) ELSE Tree(FALSE, <<>>)

\* request bodies: packages is absent, something that is not an array, or
\* a list
SyncBodies ==
  [sourcePath : SourcePaths, packages : {"absent", "notArray", "list"},
   forceReindex : BOOLEAN]

SyncBodyValid(body) ==
  /\ body.sourcePath # ""
  /\ body.packages # "notArray"

\* syncRequest = {sourcePath, forceReindex: body.forceReindex || false,
\* packages: body.packages}
RouteSyncRequest(body) ==
  SyncRequest(body.packages = "list",
              IF body.packages = "list" THEN {PkgBasic} ELSE {}, body.forceReindex)

\* the catch of POST /api/rag/sync: the status for an Error with this message
SyncStatusOf(message) ==
  IF Includes(message, <<"ENOENT">>) \/ Includes(message, <<"not", "found">>) THEN 404
  ELSE IF Includes(message, <<"EACCES">>) \/ Includes(message, <<"permission">>) THEN 403
  ELSE IF Includes(message, <<"OpenAI", "API">>) THEN 503
  ELSE IF Includes(message, <<"quota">>) THEN 429
  ELSE 500

\* initialize: RAGError(`Failed to initialize RAG service: ${error}`) around
\* the VectorStoreError of the store
InitializeMessage(err) ==
  <<"Failed", "to", "initialize", "RAG", "service">>
  \o ErrorString("RAGError", <<"Failed", "to", "initialize", "vector", "store">>
                             \o ErrorString("Error", err))

\* what fs.mkdir or fs.writeFile of the store directory may throw
StoreInitErrors ==
  {<<"EACCES", "permission", "denied", "mkdir">>, <<"ENOSPC", "no", "space", "left">>}

InitSyncRoute ==
  /\ documents = <<>> /\ index = <<>> /\ meta = 0
  /\ InitCallersIdle /\ opsLeft = 0
  /\ InitSync({Tree(TRUE, <<>>)}, MaxCalls)
  /\ config = [cacheEnabled |-> TRUE, maxSize |-> CacheMaxSize]
  /\ cache = <<>> /\ semanticCache = <<>> /\ lru = LruIdle /\ now = 0 /\ srch = SearchIdle /\ got = NoGot
  /\ emb = EmbIdle /\ http = HttpIdle /\ stat = StatIdle

\* POST: the body is validated, the API key is looked up, a new RAGService
\* is made for body.sourcePath and initialized, syncComponents runs up to
\* `await parseAllComponents()`
SyncPost(body, apiKey) ==
  /\ http.pc = "idle"
  /\ sync.pc = "idle"
  /\ budget.calls > 0
  /\ budget' = [budget EXCEPT !.calls = @ - 1]
  /\ IF ~SyncBodyValid(body)
     THEN /\ http' = [HttpIdle EXCEPT !.pc = "respond", !.body = body, !.status = 400]
          /\ UNCHANGED <<sync, passed, tree>>
     ELSE IF ~apiKey
     THEN /\ http' = [HttpIdle EXCEPT !.pc = "respond", !.body = body, !.status = 500]
          /\ UNCHANGED <<sync, passed, tree>>
     ELSE /\ http' = [HttpIdle EXCEPT !.pc = "sync", !.body = body]
          /\ tree' = TreeAt(body.sourcePath)
          /\ sync' = [SyncIdle EXCEPT !.pc = "parse", !.req = RouteSyncRequest(body)]
          /\ passed' = <<>>
  /\ UNCHANGED <<documents, index, meta, callerVars, prevSync, searchVars, emb, stat>>

\* ragService.initialize() throws: the catch of POST answers
SyncPostInitFails(body, err) ==
  /\ http.pc = "idle"
  /\ sync.pc = "idle"
  /\ SyncBodyValid(body)
  /\ budget.calls > 0 /\ budget.failures > 0
  /\ budget' = [calls |-> budget.calls - 1, failures |-> budget.failures - 1]
  /\ http' = [HttpIdle EXCEPT !.pc = "respond", !.body = body,
                              !.status = SyncStatusOf(InitializeMessage(err)),
                              !.message = InitializeMessage(err)]
  /\ UNCHANGED <<documents, index, meta, callerVars, tree, sync, passed, prevSync,
                 searchVars, emb, stat>>

\* syncComponents returned its response (it catches whatever is thrown
\* inside): POST answers {success: true, data: result}
SyncPostDone ==
  /\ http.pc = "sync"
  /\ sync.pc = "ret"
  /\ http' = [http EXCEPT !.pc = "respond", !.status = 200, !.data = sync.resp,
                          !.served = "syncComponents"]
  /\ prevSync' = [valid |-> TRUE, req |-> sync.req, status |-> sync.resp.status,
                  documents |-> documents]
  /\ sync' = SyncIdle
  /\ UNCHANGED <<documents, index, meta, callerVars, tree, passed, budget, searchVars,
                 emb, stat>>

NextSyncRoute ==
  \/ \E body \in SyncBodies, apiKey \in BOOLEAN : SyncPost(body, apiKey)
  \/ \E body \in SyncBodies, err \in StoreInitErrors : SyncPostInitFails(body, err)
  \/ SyncParseFails
  \/ SyncParse
  \/ SyncClear
  \/ \E n \in 0..2 : SyncClearFails(n)
  \/ \E i \in 1..BATCH_SIZE : TaskEmbedded(i)
  \/ \E i \in 1..BATCH_SIZE : TaskEmbedFails(i)
  \/ SyncCollect
  \/ SyncAddDocuments
  \/ \E n \in 0..2 : SyncAddDocumentsFails(n)
  \/ SyncPostDone
  \/ PostRespond

SpecSyncRoute == InitSyncRoute /\ [][NextSyncRoute]_vars

\* ================================================ DELETE /api/admin/rag
\* the stores the handler may find
DeleteStores == {<<>>, <<PoolDocs[2]>>, <<PoolDocs[1], PoolDocs[3]>>}

\* {sourcePath: defaultSourcePath, forceReindex: true, packages: []}
DeleteSyncRequest == SyncRequest(TRUE, {}, TRUE)

DeletedMessage == <<"All", "RAG", "index", "data", "deleted", "successfully">>

InitDelete ==
  /\ \E d \in DeleteStores :
       documents = d /\ index = MapIndexEntry(d) /\ meta = Len(d)
  /\ InitCallersIdle /\ opsLeft = 0
  /\ InitSync(Trees, MaxCalls)
  /\ config = [cacheEnabled |-> TRUE, maxSize |-> CacheMaxSize]
  /\ cache = <<>> /\ semanticCache = <<>> /\ lru = LruIdle /\ now = 0
  /\ srch = SearchIdle /\ got = NoGot
  /\ emb = EmbIdle /\ http = HttpIdle /\ stat = StatIdle

\* DELETE: a new RAGService is made for the default source path and
\* initialized, syncComponents runs up to `await parseAllComponents()`
AdminDelete ==
  /\ http.pc = "idle"
  /\ sync.pc = "idle"
  /\ budget.calls > 0
  /\ budget' = [budget EXCEPT !.calls = @ - 1]
  /\ http' = [HttpIdle EXCEPT !.pc = "sync"]
  /\ sync' = [SyncIdle EXCEPT !.pc = "parse", !.req = DeleteSyncRequest]
  /\ passed' = <<>>
  /\ UNCHANGED <<documents, index, meta, callerVars, tree, prevSync, searchVars, emb,
                 stat>>

\* ragService.initialize() throws: the catch of DELETE answers 500
AdminDeleteInitFails(err) ==
  /\ http.pc = "idle"
  /\ sync.pc = "idle"
  /\ budget.calls > 0 /\ budget.failures > 0
  /\ budget' = [calls |-> budget.calls - 1, failures |-> budget.failures - 1]
  /\ http' = [HttpIdle EXCEPT !.pc = "respond", !.status = 500,
                              !.message = InitializeMessage(err)]
  /\ UNCHANGED <<documents, index, meta, callerVars, tree, sync, passed, prevSync,
                 searchVars, emb, stat>>

\* syncComponents returned (it catches whatever is thrown inside) and its
\* response is dropped; clearCache(); DELETE answers {success: true}
AdminDeleteDone ==
  /\ http.pc = "sync"
  /\ sync.pc = "ret"
  /\ http' = [http EXCEPT !.pc = "respond", !.status = 200, !.message = DeletedMessage,
                          !.served = "syncComponents"]
  /\ cache' = <<>> /\ semanticCache' = <<>> /\ lru' = LruIdle
  /\ prevSync' = [valid |-> TRUE, req |-> sync.req, status |-> sync.resp.status,
                  documents |-> documents]
  /\ sync' = SyncIdle
  /\ UNCHANGED <<documents, index, meta, callerVars, tree, passed, budget, config, now,
                 srch, got, emb, stat>>

\* packages: [] keeps no component, so the Sync of DELETE has no batch
NextDelete ==
  \/ AdminDelete
  \/ \E err \in StoreInitErrors : AdminDeleteInitFails(err)
  \/ SyncParseFails
  \/ SyncParse
  \/ SyncClear
  \/ \E n \in 0..2 : SyncClearFails(n)
  \/ AdminDeleteDone
  \/ PostRespond

SpecDelete == InitDelete /\ [][NextDelete]_vars

\* ===================================== a Search that overlaps a Sync
\* the store query of searchComponents read by read: similaritySearch
\* awaits loadIndex() and then loadDocuments(), and the steps of a Sync on
\* the same service may run between the two
OverlapCalls == 3

OverlapTree == Tree(TRUE, <<DirButton>>)

OverlapSyncRequests == {SyncRequest(FALSE, {}, f) : f \in BOOLEAN}

OverlapSearchRequests == {SearchRequest("button", 0, -1, FALSE, NoFilters)}

InitOverlap ==
  /\ documents = <<>> /\ index = <<>> /\ meta = 0
  /\ InitCallersIdle /\ opsLeft = 0
  /\ InitSync({OverlapTree}, OverlapCalls)
  /\ config = [cacheEnabled |-> TRUE, maxSize |-> CacheMaxSize]
  /\ cache = <<>> /\ semanticCache = <<>> /\ lru = LruIdle /\ now = 0
  /\ srch = SearchIdle /\ got = NoGot
  /\ emb = EmbIdle /\ http = HttpIdle /\ stat = StatIdle

\* loadIndex() of the store query returns
SearchIndexLoaded ==
  /\ srch.pc = "query"
  /\ srch' = [srch EXCEPT !.pc = "docs", !.idx = index,
                          !.beforeSync = ~prevSync.valid /\ sync.pc = "idle"]
  /\ UNCHANGED <<documents, index, meta, callerVars, syncVars, config, cache,
                 semanticCache, now, got, lru>>
  /\ UNCHANGED httpVars

\* loadDocuments() of the store query returns; grouping, scoring, response
\* and cache.set
SearchDocumentsLoaded ==
  /\ srch.pc = "docs"
  /\ LET response == BuildResponse(VectorResults(srch.idx, documents, srch.req, srch.qv),
                                   srch.req)
         put == CacheSet(cache, semanticCache, srch.req.query, response, srch.qv,
                         srch.req.filtersGiven, srch.req.filters, now)
     IN /\ srch' = [srch EXCEPT !.pc = "ret", !.outcome = "ok", !.tier = "store",
                                !.resp = response,
                                !.asked = [topK |-> StoreTopK(srch.req),
                                           threshold |-> StoreThreshold(srch.req)],
                                !.queries = @ + 1,
                                !.sets = IF config.cacheEnabled THEN @ + 1 ELSE @,
                                !.origin = IF ~config.cacheEnabled THEN @
                                           ELSE IF /\ srch.beforeSync
                                                   /\ prevSync.valid
                                                   /\ prevSync.status # "failed"
                                           THEN "stale" ELSE "fresh"]
        /\ IF config.cacheEnabled
           THEN /\ cache' = put.cache /\ semanticCache' = put.semanticCache
                /\ lru' = LruAfterSet(lru, cache, srch.req.query, srch.req.filtersGiven,
                                      srch.req.filters)
           ELSE UNCHANGED <<cache, semanticCache, lru>>
  /\ got' = NoGot
  /\ UNCHANGED httpVars
  /\ UNCHANGED <<documents, index, meta, callerVars, syncVars, config, now>>

NextOverlap ==
  \/ \E req \in OverlapSyncRequests : SyncCall(req)
  \/ SyncParse
  \/ SyncClear
  \/ \E n \in 0..2 : SyncClearFails(n)
  \/ \E i \in 1..BATCH_SIZE : TaskEmbedded(i)
  \/ \E i \in 1..BATCH_SIZE : TaskEmbedFails(i)
  \/ SyncCollect
  \/ SyncAddDocuments
  \/ \E n \in 0..2 : SyncAddDocumentsFails(n)
  \/ SyncReturn
  \/ \E req \in OverlapSearchRequests : SearchCall(req)
  \/ SearchEmbedFails
  \/ SearchEmbedded
  \/ SearchIndexLoaded
  \/ SearchDocumentsLoaded
  \/ SearchReturn
  \/ Tick

SpecOverlap == InitOverlap /\ [][NextOverlap]_vars

\* ------------------------------ searches that give topK and threshold
\* thresholds 0, 0.5 and 1
GivenThresholds == {0, 50, 100}

GivenRequests ==
  {SearchRequest(q, k, t, g, IF g THEN PackageFilter(PkgBasic) ELSE NoFilters) :
     q \in Queries, k \in 1..2, t \in GivenThresholds, g \in BOOLEAN}

InitGiven ==
  /\ documents = <<PoolDocs[1], PoolDocs[3]>>
  /\ index = MapIndexEntry(documents)
  /\ meta = Len(documents)
  /\ InitCallersIdle /\ opsLeft = 0
  /\ tree = Tree(TRUE, <<>>) /\ sync = SyncIdle /\ passed = <<>> /\ prevSync = NoPrevSync
  /\ budget = [calls |-> MaxSearches, failures |-> 0]
  /\ config = [cacheEnabled |-> FALSE, maxSize |-> CacheMaxSize]
  /\ cache = <<>> /\ semanticCache = <<>> /\ lru = LruIdle /\ now = 0 /\ srch = SearchIdle /\ got = NoGot
  /\ emb = EmbIdle /\ http = HttpIdle /\ stat = StatIdle

NextGiven ==
  \/ \E req \in GivenRequests : SearchCall(req)
  \/ SearchEmbedded
  \/ SearchQueried
  \/ SearchReturn

SpecGiven == InitGiven /\ [][NextGiven]_vars

\* ------------------------------------ searches over stores in either order
\* The same documents stored in either order; "data entry" is a query that
\* is as close to the description of Button as to that of Table and occurs
\* in neither.
OrderStores == {<<PoolDocs[1], PoolDocs[3]>>, <<PoolDocs[3], PoolDocs[1]>>,
                <<PoolDocs[3], PoolDocs[2], PoolDocs[1]>>}

OrderRequests ==
  {SearchRequest(q, k, -1, FALSE, NoFilters) : q \in {"button", "table", "data entry"},
                                               k \in 0..1}

InitOrder ==
  /\ documents \in OrderStores
  /\ index = MapIndexEntry(documents)
  /\ meta = Len(documents)
  /\ InitCallersIdle /\ opsLeft = 0
  /\ tree = Tree(TRUE, <<>>) /\ sync = SyncIdle /\ passed = <<>> /\ prevSync = NoPrevSync
  /\ budget = [calls |-> MaxSearches, failures |-> 0]
  /\ config = [cacheEnabled |-> FALSE, maxSize |-> CacheMaxSize]
  /\ cache = <<>> /\ semanticCache = <<>> /\ lru = LruIdle /\ now = 0 /\ srch = SearchIdle /\ got = NoGot
  /\ emb = EmbIdle /\ http = HttpIdle /\ stat = StatIdle

NextOrder ==
  \/ \E req \in OrderRequests : SearchCall(req)
  \/ SearchEmbedded
  \/ SearchQueried
  \/ SearchReturn

SpecOrder == InitOrder /\ [][NextOrder]_vars

\* ----------------------------------------- searchWithFilters on its own
\* A store of n documents whose similarity to <<1, 0>> grows along the
\* index: the first one is the Table of the other package, the others are
\* Button documents of the basic package.
StoreDoc(i, n) ==
  IF i = 1
  THEN Doc(generateDocumentId("Table", "description", <<"text", i>>), <<"text", i>>,
           <<1, n - i>>, Meta("Table", PkgOther, "description", {"ui"}))
  ELSE Doc(generateDocumentId("Button", IF i % 2 = 0 THEN "api" ELSE "description",
                              <<"text", i>>),
           <<"text", i>>, <<1, n - i>>,
           Meta("Button", PkgBasic, IF i % 2 = 0 THEN "api" ELSE "description",
                {"form", "ui"}))

StoreOfSize(n) == [i \in 1..n |-> StoreDoc(i, n)]

StoreSizes == {0, 1, 2, 3, InnerTopK + 1}

FilterSets == {[NoFilters EXCEPT !.packageName = PkgOther],
               [NoFilters EXCEPT !.type = "api"],
               [NoFilters EXCEPT !.tags = {"form"}]}

\* searchWithFilters(queryEmbedding, filters, topK, threshold); the
\* thresholds are 0 and 0.4
FilteredOps ==
  {[kind |-> "filtered", batch |-> <<>>, ids |-> {}, qv |-> <<1, 0>>, k |-> k,
    pct |-> t, filters |-> f] : f \in FilterSets, k \in 1..2, t \in {0, 40}}

InitFiltered ==
  /\ \E n \in StoreSizes :
       /\ documents = StoreOfSize(n)
       /\ index = MapIndexEntry(StoreOfSize(n))
       /\ meta = n
  /\ pc = [p \in Procs |-> "idle"]
  /\ op = [p \in Procs |-> NoOp]
  /\ loc = [p \in Procs |-> NoLoc]
  /\ base = [p \in Procs |-> NoFiles]
  /\ conc = [p \in Procs |-> 0]
  /\ peer = [p \in Procs |-> NoOp]
  /\ clean = TRUE
  /\ crashed = NoCrash
  /\ lastAdd = NoAdd
  /\ opsLeft = MaxOps
  /\ tree = [listable |-> TRUE, dirs |-> <<>>]
  /\ sync = [pc |-> "idle"]
  /\ passed = <<>>
  /\ prevSync = [valid |-> FALSE]
  /\ budget = [calls |-> 0]
  /\ config = [cacheEnabled |-> FALSE, maxSize |-> CacheMaxSize]
  /\ cache = <<>>
  /\ semanticCache = <<>> /\ lru = LruIdle
  /\ now = 0
  /\ srch = [pc |-> "idle"]
  /\ got = [valid |-> FALSE]
  /\ emb = EmbIdle
  /\ http = HttpIdle
  /\ stat = StatIdle

\* a caller starts searchWithFilters
FilteredCall(p, o) ==
  /\ pc[p] = "idle"
  /\ opsLeft > 0
  /\ opsLeft' = opsLeft - 1
  /\ pc' = [pc EXCEPT ![p] = "flt_loadIndex"]
  /\ op' = [op EXCEPT ![p] = o]
  /\ loc' = [loc EXCEPT ![p] = NoLoc]
  /\ UNCHANGED <<documents, index, meta, base, conc, peer, clean, crashed, lastAdd>>
  /\ UNCHANGED svcVars

\* searchWithFilters -> similaritySearch: index = await this.loadIndex()
FilteredLoadIndex(p) ==
  /\ pc[p] = "flt_loadIndex"
  /\ loc' = [loc EXCEPT ![p].existingIndex = index]
  /\ Goto(p, "flt_loadDocuments")
  /\ UNCHANGED <<documents, index, meta, op, base, conc, peer, clean, crashed,
                 lastAdd, opsLeft>>

\* searchWithFilters -> similaritySearch: documents = await
\* this.loadDocuments(), the scoring, sort and lookup with topK 1000, then
\* the filter and the slice of searchWithFilters
FilteredLoadDocuments(p) ==
  /\ pc[p] = "flt_loadDocuments"
  /\ loc' = [loc EXCEPT ![p].existingDocs = documents,
                        ![p].result = searchWithFilters(loc[p].existingIndex, documents,
                                                        op[p].qv, op[p].filters,
                                                        op[p].k, op[p].pct)]
  /\ Goto(p, "ret")
  /\ UNCHANGED <<documents, index, meta, op, base, conc, peer, clean, crashed,
                 lastAdd, opsLeft>>

NextFiltered ==
  \/ \E o \in FilteredOps : FilteredCall(1, o)
  \/ \E p \in Procs : FilteredLoadIndex(p)
  \/ \E p \in Procs : FilteredLoadDocuments(p)
  \/ \E p \in Procs : Return(p)

SpecFiltered == InitFiltered /\ [][NextFiltered]_vars

\* ==================================================================== claims
Quiescent == \A p \in Procs : ~InFlight(p)

\* C4: two concurrent addDocuments calls with disjoint id sets both take
\* effect: once both have returned, documents[] and index[] hold every
\* document of both batches, as in some serial order of the two calls.
C4_ConcurrentAddsBothTakeEffect ==
  ( /\ pc[1] = "ret" /\ pc[2] = "ret"
    /\ op[1].kind = "add" /\ op[2].kind = "add"
    /\ conc[1] = 1 /\ conc[2] = 1
    /\ IdsOf(op[1].batch) \cap IdsOf(op[2].batch) = {}
    /\ base[1] = base[2] /\ Agree(base[1]) )
  => /\ IdsOf(op[1].batch) \cup IdsOf(op[2].batch) \subseteq IdsOf(documents)
     /\ IdsOf(op[1].batch) \cup IdsOf(op[2].batch) \subseteq IdsOf(index)
     /\ Files \in {OpResult(OpResult(base[1], op[1]), op[2]),
                   OpResult(OpResult(base[1], op[2]), op[1])}

\* C5: a similaritySearch that overlaps exactly one addDocuments,
\* deleteDocuments or clear returns what a search of the complete pre-write
\* files or of the complete post-write files returns.
C5_SearchSeesOneState ==
  \A s \in Procs :
    ( /\ pc[s] = "ret" /\ op[s].kind = "search"
      /\ conc[s] = 1 /\ peer[s].kind \in {"add", "delete", "clear"}
      /\ Agree(base[s]) )
    => LET pre == base[s]
           post == OpResult(base[s], peer[s])
       IN loc[s].result \in
            {similaritySearch(pre.index, pre.documents, op[s].qv, op[s].k, op[s].pct),
             similaritySearch(post.index, post.documents, op[s].qv, op[s].k, op[s].pct)}

\* C6: when the process stops during an addDocuments or a clear that ran
\* alone on consistent files, the files left behind are the complete pre-call
\* or the complete post-call state.
C6_CrashLeavesPreOrPost ==
  crashed.valid => Files \in {crashed.pre, crashed.post}

\* C7: after any sequence of completed, non-overlapping addDocuments,
\* deleteDocuments and clear calls no two records of documents[] share an id
\* and no two records of index[] share an id.
C7_NoDuplicateIds ==
  (clean /\ Quiescent) => ~HasDuplicateIds(documents) /\ ~HasDuplicateIds(index)

\* C8: addDocuments is idempotent: a second addDocuments(D) right after a
\* completed addDocuments(D) leaves documents[], index[] and meta as the
\* first call left them.
C8_AddDocumentsIdempotent ==
  \A p \in Procs :
    ( /\ pc[p] = "ret" /\ op[p].kind = "add" /\ conc[p] = 0
      /\ lastAdd.valid /\ lastAdd.batch = op[p].batch )
    => Files = lastAdd.after

\* a second addDocuments(D) has returned after a first one that stored
\* documents
C8_Witness ==
  \E p \in Procs :
    /\ pc[p] = "ret" /\ op[p].kind = "add" /\ conc[p] = 0
    /\ lastAdd.valid /\ lastAdd.batch = op[p].batch /\ lastAdd.changed
    /\ Len(documents) > 0

\* C1: every syncComponents response has processedCount = successCount +
\* failedCount and length(errors) = failedCount.
C1_CountsAddUp ==
  sync.pc = "ret" =>
    /\ sync.resp.processedCount = sync.resp.successCount + sync.resp.failedCount
    /\ Len(sync.resp.errors) = sync.resp.failedCount

\* C2: in the step in which syncComponents returns (status success, partial
\* or failed) both maps of the SmartCache are empty.
C2_CacheEmptyWhenSyncReturns ==
  [][(sync.pc # "ret" /\ sync'.pc = "ret") =>
       (cache' = <<>> /\ semanticCache' = <<>>)]_vars

\* C3: with the cache enabled, a searchComponents call with
\* filters.packageName = P returns only components whose packageName is P,
\* whatever searches came before.
C3_PackageFilterRespected ==
  ( /\ srch.pc = "ret" /\ srch.outcome = "ok" /\ config.cacheEnabled
    /\ srch.req.filtersGiven /\ srch.req.filters.packageName # "" )
  => \A i \in DOMAIN srch.resp.components :
       srch.resp.components[i].packageName = srch.req.filters.packageName

\* a second Sync with the request of the previous one, neither with
\* forceReindex, has reached its return (the tree never changes)
SecondSyncDone ==
  /\ sync.pc = "ret"
  /\ prevSync.valid
  /\ sync.req = prevSync.req
  /\ ~sync.req.forceReindex

VectorsPassed(vectors) ==
  \A i \in DOMAIN vectors : \E j \in DOMAIN passed : passed[j] = vectors[i]

ErrorsNaming(component) ==
  Cardinality({i \in DOMAIN sync.resp.errors :
                 sync.resp.errors[i].component = component})

\* C10: in a Sync that no store or listing error aborts, a failing
\* component (parse status 'error' or createComponentVectors throwing) does
\* not stop the others: every component of every batch has a task result,
\* the vectors of every succeeding component are passed to addDocuments and
\* every failing component has exactly one entry in errors.
C10_ComponentFailureIsLocal ==
  (sync.pc = "ret" /\ ~sync.aborted) =>
    /\ Len(sync.results) = Len(sync.toSync)
    /\ \A i \in DOMAIN sync.results :
         /\ sync.results[i].component = sync.toSync[i].info.componentName
         /\ sync.results[i].success => VectorsPassed(sync.results[i].vectors)
         /\ ~sync.results[i].success => ErrorsNaming(sync.results[i].component) = 1
         /\ sync.results[i].success =>
              /\ sync.toSync[i].status = "success"
              /\ sync.results[i].vectors = createComponentVectors(sync.toSync[i].info)
              /\ ErrorsNaming(sync.results[i].component) = 0

\* a Sync of two batches has returned in which an embedding call of the
\* first batch threw, another component of the first batch and the component
\* of the second batch were stored
C10_Witness ==
  /\ sync.pc = "ret" /\ ~sync.aborted
  /\ Len(sync.toSync) > BATCH_SIZE
  /\ \E i \in 1..BATCH_SIZE : sync.results[i].error.kind = "vector"
  /\ \E i \in 1..BATCH_SIZE : sync.results[i].error.kind = "parse"
  /\ \E i \in 1..BATCH_SIZE :
       sync.results[i].success /\ sync.results[i].vectors # <<>>
  /\ \E i \in (BATCH_SIZE + 1)..Len(sync.results) :
       /\ sync.results[i].success
       /\ sync.results[i].vectors # <<>>
       /\ IdsOf(sync.results[i].vectors) \subseteq IdsOf(documents)

\* C11: in every syncComponents response status is 'success' exactly when
\* errors is empty, 'partial' exactly when at least one component succeeded
\* and at least one failed, and 'failed' in every other case.
C11_StatusMatchesOutcome ==
  sync.pc = "ret" =>
    LET someSucceeded == sync.resp.successCount >= 1
        someFailed == \E i \in DOMAIN sync.results : ~sync.results[i].success
    IN /\ sync.resp.status = "success" <=> sync.resp.errors = <<>>
       /\ sync.resp.status = "partial" <=> (someSucceeded /\ someFailed)
       /\ sync.resp.status = "failed" <=>
            (sync.resp.errors # <<>> /\ ~(someSucceeded /\ someFailed))

\* C12: a SmartCache.get never returns, through the exact or the semantic
\* tier, the response of an entry created more than maxAge before the call,
\* and an entry it finds expired under its exact key is no longer in the
\* exact map when it returns.
C12_GetNeverReturnsExpired ==
  got.valid =>
    /\ got.tier \in {"exact", "semantic"} => got.hitAge <= MaxAge
    /\ (got.found /\ got.foundAge > MaxAge) =>
         (got.tier # "exact" /\ ~MapHas(cache, got.key))

\* a get has found the entry of its exact key expired while the semantic map
\* held entries
C12_Witness ==
  /\ got.valid /\ got.found /\ got.foundAge > MaxAge
  /\ Len(semanticCache) > 0

\* C13: the exact map and the semantic map each hold at most maxSize
\* entries, whatever get, set and clear calls were made and whatever time
\* passed between them.
C13_MapsWithinMaxSize ==
  Len(cache) <= CacheMaxSize /\ Len(semanticCache) <= CacheMaxSize

NonAscending(scores) ==
  \A i \in 1..(Len(scores) - 1) : scores[i] >= scores[i + 1]

\* C14: every searchComponents response, computed from the store or served
\* from the cache, has as many scores as components, at most topK of them
\* when the request gives topK, and its scores are in non-ascending order.
C14_ResponseWithinTopK ==
  (srch.pc = "ret" /\ srch.outcome = "ok") =>
    /\ Len(srch.resp.components) = Len(srch.resp.scores)
    /\ srch.req.topK > 0 => Len(srch.resp.components) <= srch.req.topK
    /\ NonAscending(srch.resp.scores)

\* C15: with the cache enabled and no Sync, a searchComponents call whose
\* request equals that of the search completed before it, made within maxAge
\* of it, returns the same components, scores and confidence.
C15_RepeatedSearchEqual ==
  ( /\ srch.pc = "ret" /\ srch.outcome = "ok" /\ config.cacheEnabled
    /\ sync.pc = "idle" /\ ~prevSync.valid
    /\ srch.last.valid /\ srch.last.req = srch.req
    /\ now - srch.last.at <= MaxAge )
  => /\ srch.resp.components = srch.last.resp.components
     /\ srch.resp.scores = srch.last.resp.scores
     /\ srch.resp.confidence = srch.last.resp.confidence

\* C16: similaritySearch(qv, k, threshold) returns at most k documents,
\* each with cosine similarity to qv of at least the threshold, in
\* non-ascending order of similarity.
C16_SearchResultBounded ==
  \A p \in Procs :
    (pc[p] = "ret" /\ op[p].kind = "search") =>
      LET r == loc[p].result
          sim(i) == cosineSimilarity(op[p].qv, r[i].embedding)
      IN /\ Len(r) <= op[p].k
         /\ \A i \in DOMAIN r : sim(i)[1] * 10000 >= op[p].pct * op[p].pct * sim(i)[2]
         /\ \A i \in DOMAIN r : \A j \in DOMAIN r :
              i < j => sim(i)[1] * sim(j)[2] >= sim(j)[1] * sim(i)[2]

\* a search has returned two documents in the reverse of their order in the
\* index
C16_Witness ==
  \E p \in Procs :
    /\ pc[p] = "ret" /\ op[p].kind = "search" /\ conc[p] = 0
    /\ Len(loc[p].result) = 2
    /\ Len(index) = 2
    /\ loc[p].result[1].id = index[2].id
    /\ loc[p].result[2].id = index[1].id

\* the index entries that reach the threshold and pass the filters, by
\* non-ascending similarity
MatchingBySimilarity(idx, qv, filters, pct) ==
  SortBySimilarity(
    SeqFilterIdx(idx, {i \in DOMAIN idx :
                         /\ SimAtLeast(cosineSimilarity(qv, idx[i].embedding), pct)
                         /\ PassesFilters(idx[i], filters)}, 1),
    qv)

\* C17: searchWithFilters(queryEmbedding, filters, topK, threshold) returns
\* exactly the first topK documents, by non-ascending similarity, among all
\* the index entries that reach the threshold and pass the filters, whatever
\* the size of the store (more than 1000 entries above the threshold
\* included).
C17_FilteredSearchComplete ==
  \A p \in Procs :
    (pc[p] = "ret" /\ op[p].kind = "filtered") =>
      LET want == Take(MatchingBySimilarity(index, op[p].qv, op[p].filters, op[p].pct),
                       op[p].k)
      IN /\ Len(loc[p].result) = Len(want)
         /\ \A i \in DOMAIN want : loc[p].result[i].id = want[i].id

\* C18: a searchComponents request that gives a threshold in [0, 1]
\* (0 included) and a topK has the store queried with exactly that threshold
\* and that topK.
C18_StoreQueriedAsRequested ==
  (srch.pc = "ret" /\ srch.tier = "store" /\ srch.req.topK > 0
     /\ srch.req.threshold \in 0..100) =>
    srch.asked = [topK |-> srch.req.topK, threshold |-> srch.req.threshold]

\* C19: when the provider's error contains 'quota' or is a 401, createEmbedding
\* makes exactly one provider call for the request and throws the quota or
\* authentication error without another attempt.
C19_NoRetryOnQuotaOrAuth ==
  (emb.pc \in {"delay", "call", "ret"} /\ emb.errors # <<>>
     /\ (Includes(emb.errors[1], <<"quota">>) \/ Includes(emb.errors[1], <<"401">>))) =>
    /\ emb.pc = "ret"
    /\ emb.calls = 1
    /\ emb.outcome = "thrown"
    /\ emb.message = ThrownMessage(emb.errors[1])

\* C20: on POST /api/rag/search a provider quota failure gives status 429, a
\* provider authentication failure gives 401, and 503 is given only for
\* other provider failures.
C20_StatusOfProviderFailure ==
  (http.pc = "respond" /\ http.errors # <<>>) =>
    LET err == http.errors[Len(http.errors)]
        quota == Includes(err, <<"quota">>)
        auth == Includes(err, <<"401">>)
    IN /\ quota => http.status = 429
       /\ auth => http.status = 401
       /\ http.status = 503 => (~quota /\ ~auth)

\* C21: on POST /api/rag/sync a Sync whose source path does not exist is
\* answered with status 404, one whose source path is not readable with
\* status 403, and neither with status 200 and success: true.
C21_BadSourcePathStatus ==
  (http.pc = "respond" /\ http.served = "syncComponents") =>
    /\ http.body.sourcePath = "/missing" => http.status = 404
    /\ http.body.sourcePath = "/unreadable" => http.status = 403
    /\ http.body.sourcePath \in {"/missing", "/unreadable"} => http.status # 200

\* C22: for every non-empty list texts, embedTexts(texts) returns a list as
\* long as texts whose element i is the embedding of texts[i], also when
\* some but not all texts are whitespace-only and when the provider lists
\* the items out of order.
C22_EmbedTextsKeepsOrder ==
  (emb.pc = "ret" /\ emb.outcome = "ok" /\ Len(emb.texts) > 0) =>
    /\ Len(emb.result) = Len(emb.texts)
    /\ \A i \in DOMAIN emb.texts : emb.result[i] = EmbeddingOf(emb.texts[i])

\* C23: a Sync request whose packages field is absent or an empty list
\* applies no package filter: every parsed component is among the
\* components the Sync expands into vectors.
C23_NoFilterWithoutPackages ==
  (sync.pc \in {"clear", "tasks", "addDocuments", "ret"} /\ ~sync.aborted
     /\ (~sync.req.packagesGiven \/ sync.req.packages = {})) =>
    sync.toSync = parseAllComponents(tree.dirs)

\* the (packageName, componentName) pairs of these vector documents
ComponentPairs(docs) ==
  {<<docs[i].metadata.packageName, docs[i].metadata.componentName>> : i \in DOMAIN docs}

\* C24: for any Sync followed by Status (whatever Syncs came before),
\* stats.totalComponents is the number of distinct (packageName,
\* componentName) pairs among the components of that Sync that produced at
\* least one vector.
C24_TotalComponentsOfLastSync ==
  (stat.pc = "ret" /\ stat.afterSync = "success") =>
    stat.stats.totalComponents = Cardinality(ComponentPairs(stat.produced))

\* C25: after a Sync with forceReindex that returns 'success' the store
\* holds exactly the vector documents that Sync created: every stored
\* document is one of them, each of them is stored, and index and metadata
\* agree.
C25_ForceReindexReplacesStore ==
  (sync.pc = "ret" /\ sync.req.forceReindex /\ sync.resp.status = "success") =>
    /\ \A i \in DOMAIN documents : \E j \in DOMAIN passed : documents[i] = passed[j]
    /\ \A j \in DOMAIN passed : \E i \in DOMAIN documents : documents[i] = passed[j]
    /\ index = MapIndexEntry(documents)
    /\ meta = Len(documents)

\* a forceReindex Sync returned 'success' with documents stored, and a
\* document the previous Sync left in the store is gone
C25_Witness ==
  /\ sync.pc = "ret" /\ sync.req.forceReindex /\ sync.resp.status = "success"
  /\ documents # <<>>
  /\ prevSync.valid
  /\ \E i \in DOMAIN prevSync.documents :
       prevSync.documents[i].id \notin IdsOf(documents)

\* C26: a Sync of every component over two directories, button well-formed
\* and table with neither index.en-US.md nor a demo, with no failure of the
\* provider or of the store, returns 'partial' with successCount 1,
\* failedCount 1 and an errors entry naming Table.
C26_BareDirectoryFails ==
  (sync.pc = "ret" /\ ~sync.aborted /\ tree = Tree(TRUE, <<DirButton, DirTable>>)
     /\ ~sync.req.packagesGiven /\ budget.failures = MaxFailures) =>
    /\ sync.resp.status = "partial"
    /\ sync.resp.successCount = 1
    /\ sync.resp.failedCount = 1
    /\ \E i \in DOMAIN sync.resp.errors :
         sync.resp.errors[i].component = capitalizeComponentName("table")

\* (packageName, componentName) of a before that of b, in the order of
\* strings, on the names of the model
KeyBefore(a, b) ==
  \/ a.packageName = PkgBasic /\ b.packageName = PkgOther
  \/ a.packageName = b.packageName /\ a.componentName = "Button"
       /\ b.componentName = "Table"

\* C27: in the response of a Search answered from the store the components
\* come by descending total score, and two components of equal total score
\* come in the order of (packageName, componentName), whatever the order of
\* the documents in the store.
C27_OrderedByScoreThenKey ==
  (srch.pc = "ret" /\ srch.outcome = "ok" /\ srch.tier = "store") =>
    \A i, j \in DOMAIN srch.resp.components :
      i < j => \/ srch.resp.scores[i] > srch.resp.scores[j]
               \/ /\ srch.resp.scores[i] = srch.resp.scores[j]
                  /\ KeyBefore(srch.resp.components[i], srch.resp.components[j])

\* C28: in every state of the SmartCache every key of the semantic map is a
\* key of the exact map.
C28_SemanticKeysInExactMap ==
  \A i \in DOMAIN semanticCache : MapHas(cache, semanticCache[i].key)

\* C29: when a set evicts at capacity, the evicted key is the one whose last
\* set or exact hit is the oldest of the keys of the exact map, and it is not
\* the key set or exact-hit after all the others.
C29_EvictsLeastRecentlyUsed ==
  lru.evicted # <<>> =>
    /\ lru.evicted[1] = lru.before[1]
    /\ Len(lru.before) > 1 => lru.evicted[1] # lru.before[Len(lru.before)]

TasksInFlight(sy) == {i \in DOMAIN sy.tasks : sy.tasks[i].state = "inflight"}

\* C31: during syncComponents at most BATCH_SIZE createComponentVectors
\* tasks are in flight, the step in which a task finishes leaves the three
\* store files as they were, and while tasks are in flight the documents
\* collected from the batches before theirs are all in the store (the
\* addDocuments of those batches have completed) and no addDocuments runs.
C31_BatchesOfTenInSequence ==
  [][/\ Cardinality(TasksInFlight(sync')) <= BATCH_SIZE
     /\ (\E i \in TasksInFlight(sync) : i \notin TasksInFlight(sync') /\ sync'.pc = "tasks")
          => UNCHANGED <<documents, index, meta>>
     /\ TasksInFlight(sync') # {} =>
          /\ sync'.pc = "tasks"
          /\ IdsOf(passed') \subseteq IdsOf(documents')
          /\ Len(sync'.results) = sync'.batchIndex * BATCH_SIZE]_vars

\* the tasks of the second batch are in flight after a first batch of ten
\* whose documents were stored
C31_Witness ==
  /\ sync.pc = "tasks" /\ sync.batchIndex = 1
  /\ TasksInFlight(sync) # {}
  /\ Len(sync.results) = BATCH_SIZE
  /\ Len(passed) = BATCH_SIZE
  /\ IdsOf(passed) \subseteq IdsOf(documents)

\* C32: the store and the counters a Sync from an empty store leaves behind
\* are those of the outcomes of its tasks taken in the order of the
\* components, whatever the order in which the tasks finished: the documents
\* are the vectors of the succeeding components in that order, successCount
\* counts them and processedCount counts the parsed components; while the
\* tasks run, the result of each finished task is that of its own component.
C32_TaskOrderInvisible ==
  /\ sync.pc = "tasks" =>
       \A i \in DOMAIN sync.tasks :
         (sync.tasks[i].state = "done" /\ sync.tasks[i].success) =>
           sync.tasks[i].vectors =
             createComponentVectors(BatchOf(sync.toSync, sync.batchIndex)[i].info)
  /\ (sync.pc = "ret" /\ ~sync.aborted) =>
    /\ documents = CollectVectors(sync.results)
    /\ index = MapIndexEntry(documents)
    /\ meta = Len(documents)
    /\ \A i \in DOMAIN sync.results :
         sync.results[i].success =>
           sync.results[i].vectors = createComponentVectors(sync.toSync[i].info)
    /\ sync.resp.successCount = CountSuccess(sync.results)
    /\ sync.resp.processedCount = Len(parseAllComponents(tree.dirs))
    /\ sync.resp.failedCount = sync.resp.processedCount - sync.resp.successCount

\* a Sync of two batches has returned with documents stored, one embedding
\* call having failed and a task having finished before an earlier one
C32_Witness ==
  /\ sync.pc = "ret" /\ ~sync.aborted
  /\ sync.overtaken
  /\ Len(sync.results) > BATCH_SIZE
  /\ \E i \in DOMAIN sync.results : ~sync.results[i].success
  /\ Len(documents) >= BATCH_SIZE

\* C33: createEmbedding makes at most maxRetries provider calls, waits
\* retryDelay * attempt after failed attempt number attempt when another
\* attempt follows, returns the vectors of the first call that succeeds,
\* throws after attempt number maxRetries has failed, and every call of it
\* comes to its return or its throw.
C33_CreateEmbeddingTerminates ==
  /\ [](/\ emb.calls <= maxRetries
        /\ emb.waits = [k \in 1..Len(emb.waits) |-> retryDelay * k]
        /\ emb.pc = "delay" => (Len(emb.waits) = emb.attempt /\ emb.attempt < maxRetries)
        /\ emb.pc = "call" => (Len(emb.waits) = emb.attempt - 1 /\ emb.calls = emb.attempt - 1)
        /\ (emb.pc = "ret" /\ emb.outcome = "ok" /\ emb.input # <<>>) =>
             /\ Len(emb.errors) = emb.calls - 1
             /\ emb.result = [i \in DOMAIN emb.input |-> EmbeddingOf(emb.input[i])]
        /\ (emb.pc = "ret" /\ emb.outcome = "thrown" /\ emb.input # <<>>) =>
             /\ emb.calls = maxRetries
             /\ Len(emb.errors) = maxRetries
             /\ Len(emb.waits) = maxRetries - 1
             /\ emb.message = ThrownMessage(emb.errors[maxRetries]))
  /\ (emb.pc = "call" /\ emb.attempt = 1) ~> (emb.pc = "ret")

\* createEmbedding has returned the vectors of its third call, after waits of
\* retryDelay and twice retryDelay
C33_Witness ==
  /\ emb.pc = "ret" /\ emb.outcome = "ok"
  /\ emb.calls = maxRetries
  /\ emb.waits = <<retryDelay, 2 * retryDelay>>
  /\ Len(emb.input) > 1

\* C34: every searchComponents call makes exactly one embedText request and
\* at most one store query, and a call whose cache.get returned an entry
\* makes no store query and no cache.set
C34_SearchIsSingleShot ==
  /\ srch.pc # "idle" => srch.embedTexts = 1
  /\ srch.queries <= 1
  /\ srch.pc \in {"embed", "query"} => srch.queries = 0
  /\ srch.hit => (srch.queries = 0 /\ srch.sets = 0)
  /\ (srch.pc = "ret" /\ srch.tier \in {"exact", "semantic"}) =>
       (srch.hit /\ srch.queries = 0 /\ srch.sets = 0)
  /\ (srch.pc = "ret" /\ srch.tier = "store") => (srch.queries = 1 /\ ~srch.hit)

C34_Witness ==
  /\ srch.pc = "ret" /\ srch.hit /\ srch.tier = "semantic"
  /\ srch.embedTexts = 1 /\ srch.queries = 0
  /\ cache # <<>>

\* C35: when the listing of <sourcePath>/components fails, syncComponents
\* answers 'failed' with processedCount 0 and successCount 0, and no step of
\* it changes the store: nothing is cleared, also with forceReindex, and
\* nothing is added
C35_FailedListingLeavesStore ==
  [][~tree.listable =>
       /\ UNCHANGED <<documents, index, meta>>
       /\ passed' = <<>>
       /\ sync'.pc \in {"idle", "parse", "ret"}
       /\ sync'.pc = "ret" =>
            /\ sync'.aborted
            /\ sync'.resp.status = "failed"
            /\ sync'.resp.processedCount = 0
            /\ sync'.resp.successCount = 0]_vars

C35_Witness ==
  /\ ~tree.listable
  /\ sync.pc = "ret" /\ sync.req.forceReindex
  /\ sync.resp.status = "failed" /\ sync.resp.processedCount = 0
  /\ documents # <<>> /\ index = MapIndexEntry(documents)

\* C36: whenever the admin DELETE handler answers success: true, the store
\* holds no document and no index entry
C36_DeleteSuccessMeansEmptyStore ==
  (http.pc = "respond" /\ http.status = 200 /\ http.message = DeletedMessage) =>
    (documents = <<>> /\ index = <<>>)

\* C37: when a Search overlaps a Sync on the same service, no Search issued
\* after the Sync has returned is answered from a cache entry whose response
\* was computed from the store contents before that Sync: no cache.get
\* returns an entry that was made, after a Sync that did not fail had
\* returned, from an index loaded before that Sync was called
C37_NoAnswerFromBeforeTheSync ==
  (srch.pc = "ret" /\ srch.hit) => srch.origin # "stale"

\* C38: after any sequence of completed, non-overlapping addDocuments,
\* deleteDocuments and clear calls the ids of documents[] are the ids of
\* index[], each index entry has the id, the embedding and the metadata of
\* the document at its position, and meta.totalDocuments is the length of
\* documents[]
C38_IndexMirrorsDocuments ==
  (clean /\ Quiescent) =>
    /\ IdsOf(documents) = IdsOf(index)
    /\ Len(index) = Len(documents)
    /\ \A i \in DOMAIN index :
         /\ index[i].id = documents[i].id
         /\ index[i].embedding = documents[i].embedding
         /\ index[i].metadata = documents[i].metadata
    /\ meta = Len(documents)

\* an addDocuments that stored documents has returned after a deleteDocuments
\* that removed one
C38_Witness ==
  /\ clean /\ Quiescent
  /\ \E p \in Procs : /\ pc[p] = "ret" /\ op[p].kind = "add" /\ conc[p] = 0
                       /\ Len(base[p].documents) = 1
  /\ opsLeft = 0
  /\ Len(documents) = 2 /\ documents[1].id # documents[2].id
  /\ documents # <<PoolDocs[1], PoolDocs[2]>>

KeysOfMap(c) == {c[i].key : i \in DOMAIN c}

\* C39: a set for a key that is already in the exact map replaces the entry
\* of that key and removes no other key: the keys of the exact map are the
\* same after the call, also when the map is at capacity
C39_SetOfPresentKeyKeepsKeys ==
  [][\A q \in Queries : \A e \in Embeddings(q) :
       ( /\ CacheSetCall(q, CacheValueOf(q), e)
         /\ MapHas(cache, generateKey(q, FALSE, NoFilters)) )
       => /\ KeysOfMap(cache') = KeysOfMap(cache)
          /\ MapGet(cache', generateKey(q, FALSE, NoFilters)).value = CacheValueOf(q)]_vars

====
